---- MODULE Spec2Model ----
(***************************************************************************)
(* A model of the vaca evaluator (src/src/bezerro): the tree-walking       *)
(* interpreter of eval/core.rs and eval/special_forms.rs with its depth    *)
(* accounting and Recur trampoline, and the module loader of               *)
(* eval/use_form.rs.  The recursive descent of the Rust code is modelled   *)
(* as a machine with an explicit call stack: one frame per active Rust     *)
(* function, one action per Rust function.                                 *)
(***************************************************************************)
EXTENDS Integers, Sequences, FiniteSets, TLC

VARIABLES
    envs,           \* the Env objects: id -> [b: bindings, p: parent id or NoParent]
    sourceDir,      \* Env.source_dir of the root environment
    moduleCache,    \* Env.module_cache: canonical path -> ModuleInfo
    moduleLoading,  \* Env.module_loading: set of canonical paths
    files,          \* the file system: path -> entry
    stack,          \* the active Rust calls, innermost last
    ret,            \* the Result being handed from a callee to its caller
    inputs,         \* the forms still to be given to eval: a sequence of sets of choices
    last,           \* the latest top-level form, its Result, the root's names before it
    done,           \* history: number of top-level forms evaluated
    peak,           \* history: greatest depth at which a guarded body has run
    loads,          \* history: canonical path -> times its file was read / evaluated
    edits           \* history: number of edits made to the file system

vars == <<envs, sourceDir, moduleCache, moduleLoading, files, stack, ret,
          inputs, last, done, peak, loads, edits>>

----------------------------------------------------------------------------
(* Program constants and bounds *)

MAX_STACK_DEPTH == 10000

\* number of iterations of the tail-recursive programs (tests.rs:93, 105)
Iterations == 20000

\* number of calls the program of tests.rs:119-125 nests
NestedCalls == 3

\* number of forms a session gives to eval
MaxInputs == 2

\* number of edits of a module file that the environment may make
MaxEdits == 1

\* how far below the limit the depth is when the nested calls are joined
NearLimit == 8

\* the width of an Int in bits, standing for the 64 of i64
IntBits == 16

\* i64::MIN and i64::MAX of an Int that is IntBits wide
I64_MIN == -(2 ^ (IntBits - 1))
I64_MAX == 2 ^ (IntBits - 1) - 1

\* number of pieces a text given to the reader is put together from
MaxPieces == 4
\* the calls of map, reduce and scan that nest before the run is cut
MaxPasses == 3

----------------------------------------------------------------------------
(* value.rs: the runtime value sum.  A value is a record: k is the variant  *)
(* and the other fields its payload: n an integer (Int, Bool, the captured *)
(* env of a Lambda or Macro), s a string, ps the parameter names, xs the   *)
(* ordered children, ms the unordered children (Set items, Map entries).   *)

Nil == [k |-> "nil"]
Bool(b) == [k |-> "bool", n |-> IF b THEN 1 ELSE 0]
IntV(i) == [k |-> "int", n |-> i]
Float(name) == [k |-> "float", s |-> name]
Str(s) == [k |-> "string", s |-> s]
Keyword(s) == [k |-> "keyword", s |-> s]
Symbol(s) == [k |-> "symbol", s |-> s]
List(xs) == [k |-> "list", xs |-> xs]
Vector(xs) == [k |-> "vector", xs |-> xs]
Entry(key, val) == [k |-> "entry", xs |-> <<key, val>>]
Map(entries) == [k |-> "map", ms |-> entries]
Set(items) == [k |-> "set", ms |-> items]
Recur(args) == [k |-> "recur", xs |-> args]
Builtin(name) == [k |-> "builtin", s |-> name]
Lambda(params, body, env) == [k |-> "lambda", n |-> env, ps |-> params, xs |-> body]
Macro(params, body, env) == [k |-> "macro", n |-> env, ps |-> params, xs |-> body]

\* Value::type_name
type_name(v) == v.k

\* Value::is_truthy
is_truthy(v) ==
    CASE v.k = "nil" -> FALSE
      [] v.k = "bool" -> v.n = 1
      [] v.k = "int" -> v.n # 0
      [] v.k = "string" -> v.s # ""
      [] v.k \in {"list", "vector"} -> v.xs # <<>>
      [] v.k \in {"map", "set"} -> v.ms # {}
      [] OTHER -> TRUE

\* matches!(v, Value::Recur(_))
IsRecur(v) == v.k = "recur"

\* An f64 is named by the way it is written: "1.0", "-0.0", "NaN" and "-NaN"
\* (two NaNs of different bits), "pi".  f64::to_bits is one to one on them.
is_nan(f) == f \in {"NaN", "-NaN"}

\* *i as f64, exact for an Int of up to 53 bits
as_f64(i) == ToString(i) \o ".0"

\* float_hash: the canonical bits of f
float_hash(f) ==
    IF f \in {"0.0", "-0.0"} THEN "0.0"
    ELSE IF is_nan(f) THEN "NaN"
    ELSE f

\* float_eq
float_eq(a, b) == float_hash(a) = float_hash(b)

\* What a Hasher is fed: a sequence of writes, each a tag with an integer, a
\* string or the exclusive or of finished hashes.  Hasher::finish is taken
\* to be one to one, so that a finished hash is the sequence it was fed, and
\* the exclusive or of finished hashes is the set of those met an odd number
\* of times.
Write(tag, n, s, acc) == [tag |-> tag, n |-> n, s |-> s, acc |-> acc]
WriteInt(tag, n) == <<Write(tag, n, "", {})>>
WriteStr(tag, s) == <<Write(tag, 0, s, {})>>

RECURSIVE Flatten(_)
Flatten(seqs) == IF seqs = <<>> THEN <<>> ELSE Head(seqs) \o Flatten(Tail(seqs))

\* acc ^= h.finish() over the finished hashes hs[x] of the items x
XorOf(items, hs) ==
    {h \in {hs[x] : x \in items} : Cardinality({x \in items : hs[x] = h}) % 2 = 1}

\* impl Hash for Value
RECURSIVE hash(_)
hash(v) ==
    LET discriminant == WriteStr("discriminant", v.k)
        children(xs) == WriteInt("len", Len(xs)) \o Flatten([i \in DOMAIN xs |-> hash(xs[i])])
        names(ps) == WriteInt("len", Len(ps)) \o [i \in DOMAIN ps |-> Write("str", 0, ps[i], {})]
        entry(x) == IF x.k = "entry" THEN hash(x.xs[1]) \o hash(x.xs[2]) ELSE hash(x)
    IN  discriminant \o
        CASE v.k = "nil" -> <<>>
          [] v.k \in {"bool", "int"} -> WriteInt(v.k, v.n)
          [] v.k = "float" -> WriteStr("u64", float_hash(v.s))
          [] v.k \in {"string", "keyword", "symbol"} -> WriteStr("str", v.s)
          [] v.k \in {"list", "vector", "recur"} -> children(v.xs)
          [] v.k \in {"set", "map"} ->
                WriteInt("len", Cardinality(v.ms))
                    \o <<Write("u64", 0, "", XorOf(v.ms, [x \in v.ms |-> entry(x)]))>>
          [] v.k = "builtin" -> WriteStr("str", v.s) \o WriteStr("usize", v.s)
          [] v.k \in {"lambda", "macro"} -> names(v.ps) \o children(v.xs) \o WriteInt("ptr", v.n)

\* impl PartialEq for Value.  HashSet and HashMap compare by looking each
\* item of one up in the other, by its hash and then by ==.
RECURSIVE eq(_, _)
eq(a, b) ==
    LET all(xs, ys) == Len(xs) = Len(ys) /\ \A i \in DOMAIN xs : eq(xs[i], ys[i])
        found(x, ys) ==
            \E y \in ys :
                IF x.k = "entry"
                THEN /\ hash(x.xs[1]) = hash(y.xs[1])
                     /\ eq(x.xs[1], y.xs[1])
                     /\ eq(x.xs[2], y.xs[2])
                ELSE hash(x) = hash(y) /\ eq(x, y)
    IN  IF a.k = "int" /\ b.k = "float" THEN float_eq(as_f64(a.n), b.s)
        ELSE IF a.k = "float" /\ b.k = "int" THEN float_eq(a.s, as_f64(b.n))
        ELSE IF a.k # b.k THEN FALSE
        ELSE CASE a.k = "nil" -> TRUE
               [] a.k \in {"bool", "int"} -> a.n = b.n
               [] a.k = "float" -> float_eq(a.s, b.s)
               [] a.k \in {"string", "keyword", "symbol", "builtin"} -> a.s = b.s
               [] a.k \in {"list", "vector", "recur"} -> all(a.xs, b.xs)
               [] a.k \in {"set", "map"} ->
                     Cardinality(a.ms) = Cardinality(b.ms) /\ \A x \in a.ms : found(x, b.ms)
               [] a.k \in {"lambda", "macro"} -> a.ps = b.ps /\ all(a.xs, b.xs) /\ a.n = b.n

----------------------------------------------------------------------------
(* error.rs: EvalError and UseError.  kind is the EvalError variant, sub   *)
(* the UseError variant (for kind "Use"), arg the payload.                 *)

Error(kind, sub, arg) == [kind |-> kind, sub |-> sub, arg |-> arg]
NoError == Error("", "", "")
UndefinedSymbol(name) == Error("UndefinedSymbol", "", name)
TypeError(expected, got) == Error("TypeError", expected, got)
ArityError == Error("ArityError", "", "")
DivisionByZero == Error("DivisionByZero", "", "")
StackOverflow == Error("StackOverflow", "", "10000")
NotCallable(t) == Error("NotCallable", "", t)
ParseError == Error("ParseError", "", "")
Custom(msg) == Error("Custom", "", msg)
Use(sub, arg) == Error("Use", sub, arg)

\* recur_tail_position_error
recur_tail_position_error == Custom("recur must be in tail position")

\* env.rs ModuleInfo { exports, mangle_map }
ModuleInfo(exports, mangle_map) == [exports |-> exports, mangle_map |-> mangle_map]
NoInfo == ModuleInfo({}, <<>>)

\* A Result in flight from a callee to its caller: Result<Value, EvalError>, or
\* Result<ModuleInfo, EvalError> (info); st = "none" when no call has returned.
NoRet == [st |-> "none", v |-> Nil, err |-> NoError, info |-> NoInfo]
Ok(v) == [st |-> "ok", v |-> v, err |-> NoError, info |-> NoInfo]
Err(e) == [st |-> "err", v |-> Nil, err |-> e, info |-> NoInfo]
OkInfo(info) == [st |-> "ok", v |-> Nil, err |-> NoError, info |-> info]

\* a panic, which no caller receives: it unwinds the thread
Panic == [st |-> "panic", v |-> Nil, err |-> NoError, info |-> NoInfo]

\* the result of i64 arithmetic that overflowed, v being the wrapped value: a
\* panic in a build with overflow checks (debug), v in one without (release)
Overflowed(v) == [st |-> "overflow", v |-> v, err |-> NoError, info |-> NoInfo]

----------------------------------------------------------------------------
(* env.rs: environments *)

NoParent == -1
RootId == 0

EmptyBindings == [x \in {} |-> Nil]

\* Env::with_parent
with_parent(parent) == [b |-> EmptyBindings, p |-> parent]

\* The id of a freshly allocated Env (Rc::new): the least id not in use.
NewEnvId(store) ==
    LET used == DOMAIN store
        n == Cardinality(used)
    IN  IF used = 0..(n - 1) THEN n ELSE CHOOSE i \in 0..n : i \notin used

\* Rc::new(RefCell::new(Env::with_parent(parent)))
Alloc(store, parent) == (NewEnvId(store) :> with_parent(parent)) @@ store

\* Env::define
define(store, e, name, value) ==
    [store EXCEPT ![e].b = (name :> value) @@ store[e].b]

\* Env::contains_local
contains_local(store, e, name) == name \in DOMAIN store[e].b

\* Env::get: the binding found along the parent chain, as Option<Value>
RECURSIVE get(_, _, _)
get(store, e, name) ==
    IF name \in DOMAIN store[e].b THEN [some |-> TRUE, v |-> store[e].b[name]]
    ELSE IF store[e].p = NoParent THEN [some |-> FALSE, v |-> Nil]
    ELSE get(store, store[e].p, name)

\* root_env
RECURSIVE root_env(_, _)
root_env(store, e) ==
    IF store[e].p = NoParent THEN e ELSE root_env(store, store[e].p)

\* a definition made in the scope it is evaluated in
define_in_scope(store, e, name, value) == define(store, e, name, value)

\* define_global
RECURSIVE define_global(_, _, _, _)
define_global(store, e, name, value) ==
    IF store[e].p # NoParent THEN define_global(store, store[e].p, name, value)
    ELSE define(store, e, name, value)

\* define each of names[i] := values[i] in e (the zip loops of apply_impl etc.)
RECURSIVE define_all(_, _, _, _)
define_all(store, e, names, values) ==
    IF names = <<>> \/ values = <<>> THEN store
    ELSE define_all(define(store, e, Head(names), Head(values)), e, Tail(names), Tail(values))

\* The Env ids a value holds an Rc to (through Lambda / Macro).
RECURSIVE EnvRefs(_)
EnvRefs(v) ==
    CASE v.k \in {"lambda", "macro"} -> {v.n} \cup UNION {EnvRefs(v.xs[i]) : i \in DOMAIN v.xs}
      [] v.k \in {"list", "vector", "recur", "entry"} ->
            UNION {EnvRefs(v.xs[i]) : i \in DOMAIN v.xs}
      [] v.k \in {"map", "set"} -> UNION {EnvRefs(x) : x \in v.ms}
      [] OTHER -> {}

EnvRefsSeq(vs) == UNION {EnvRefs(vs[i]) : i \in DOMAIN vs}

\* The Envs kept alive (reference counting) by the roots S.
RECURSIVE Alive(_, _)
Alive(S, store) ==
    LET N == S \cup ({store[i].p : i \in S} \ {NoParent})
               \cup UNION {UNION {EnvRefs(store[i].b[x]) : x \in DOMAIN store[i].b} : i \in S}
    IN  IF N = S THEN S ELSE Alive(N, store)

\* Dropping every Env that no Rc reaches from the roots.
Drop(store, roots) ==
    LET keep == Alive(roots \cup {RootId}, store)
    IN  [i \in keep |-> store[i]]

----------------------------------------------------------------------------
(* builtins.rs: the built-in table *)

BuiltinNames ==
    {"+", "-", "*", "/", "//", "^", "mod", "brt", "max", "min",
     ">", "<", ">=", "<=", "==", "!=", "&", "|",
     "readln", "format", "print", "println", "parse-int", "parse-float",
     "concat", "append", "prepend", "nth", "map", "reduce", "scan", "assert"}

\* register_builtins
register_builtins ==
    [x \in BuiltinNames \cup {"pi"} |-> IF x = "pi" THEN Float("pi") ELSE Builtin(x)]

AllInts(args) == \A i \in DOMAIN args : args[i].k = "int"

Abs(n) == IF n < 0 THEN -n ELSE n

\* i64::saturating_add
saturating_add(a, b) ==
    IF a + b > I64_MAX THEN I64_MAX ELSE IF a + b < I64_MIN THEN I64_MIN ELSE a + b

\* i64::saturating_mul
saturating_mul(a, b) ==
    LET negative == (a < 0) # (b < 0)
        limit == IF negative THEN -I64_MIN ELSE I64_MAX
    IN  IF a = 0 \/ b = 0 THEN 0
        ELSE IF Abs(a) > limit \div Abs(b) THEN (IF negative THEN I64_MIN ELSE I64_MAX)
        ELSE a * b

\* the loops of builtin_add and builtin_mul over Int arguments
RECURSIVE SumInts(_, _)
SumInts(acc_i, args) ==
    IF args = <<>> THEN acc_i ELSE SumInts(saturating_add(acc_i, Head(args).n), Tail(args))

RECURSIVE MulInts(_, _)
MulInts(acc_i, args) ==
    IF args = <<>> THEN acc_i ELSE MulInts(saturating_mul(acc_i, Head(args).n), Tail(args))

InRange(n) == I64_MIN <= n /\ n <= I64_MAX

\* i64 arithmetic without overflow checks: two's complement wrapping
wrapping(n) == ((n - I64_MIN) % (2 ^ IntBits)) + I64_MIN

\* the loop of builtin_sub over Int arguments, x - y wrapping
RECURSIVE SubInts(_, _)
SubInts(acc, args) ==
    IF args = <<>> THEN acc ELSE SubInts(wrapping(acc - Head(args).n), Tail(args))

\* some x - y of that loop overflows
RECURSIVE SubOverflows(_, _)
SubOverflows(acc, args) ==
    /\ args # <<>>
    /\ \/ ~InRange(acc - Head(args).n)
       \/ SubOverflows(wrapping(acc - Head(args).n), Tail(args))

\* an i64 result: the value, or the overflow that the build decides on
Checked(overflows, n) == IF overflows THEN Overflowed(IntV(n)) ELSE Ok(IntV(n))

\* the i64 operators / and %, which round towards zero
truncating_div(a, b) ==
    IF (a < 0) # (b < 0) THEN -(Abs(a) \div Abs(b)) ELSE Abs(a) \div Abs(b)
truncating_rem(a, b) == a - b * truncating_div(a, b)

\* i64::saturating_pow
RECURSIVE saturating_pow(_, _)
saturating_pow(a, exp) ==
    IF exp = 0 THEN 1 ELSE saturating_mul(saturating_pow(a, exp - 1), a)

FirstNonNumber(args) ==
    args[CHOOSE i \in DOMAIN args :
            /\ args[i].k # "int"
            /\ \A j \in DOMAIN args : j < i => args[j].k = "int"]

\* builtin_add over Int arguments
builtin_add(args) ==
    IF AllInts(args) THEN Ok(IntV(SumInts(0, args)))
    ELSE Err(TypeError("number", type_name(FirstNonNumber(args))))

\* builtin_mul over Int arguments
builtin_mul(args) ==
    IF AllInts(args) THEN Ok(IntV(MulInts(1, args)))
    ELSE Err(TypeError("number", type_name(FirstNonNumber(args))))

\* builtin_sub over Int arguments
builtin_sub(args) ==
    IF args = <<>> THEN Err(ArityError)
    ELSE IF ~AllInts(args) THEN Err(TypeError("number", type_name(FirstNonNumber(args))))
    ELSE IF Len(args) = 1 THEN Checked(~InRange(-args[1].n), wrapping(-args[1].n))
    ELSE Checked(SubOverflows(args[1].n, Tail(args)), SubInts(args[1].n, Tail(args)))

\* the first argument of builtin_int_div and builtin_mod that is not an Int
FirstNonInt(args) == IF args[1].k # "int" THEN args[1] ELSE args[2]

\* builtin_int_div: a / b panics when it overflows, whatever the build
builtin_int_div(args) ==
    IF Len(args) # 2 THEN Err(ArityError)
    ELSE IF ~AllInts(args) THEN Err(TypeError("int", type_name(FirstNonInt(args))))
    ELSE IF args[2].n = 0 THEN Err(DivisionByZero)
    ELSE IF args[1].n = I64_MIN /\ args[2].n = -1 THEN Panic
    ELSE Ok(IntV(truncating_div(args[1].n, args[2].n)))

\* builtin_mod: a % b panics when a / b overflows, whatever the build
builtin_mod(args) ==
    IF Len(args) # 2 THEN Err(ArityError)
    ELSE IF ~AllInts(args) THEN Err(TypeError("int", type_name(FirstNonInt(args))))
    ELSE IF args[2].n = 0 THEN Err(DivisionByZero)
    ELSE IF args[1].n = I64_MIN /\ args[2].n = -1 THEN Panic
    ELSE Ok(IntV(truncating_rem(args[1].n, args[2].n)))

\* builtin_pow over Int arguments with an exponent that is not negative
builtin_pow(args) ==
    IF Len(args) # 2 THEN Err(ArityError)
    ELSE Ok(IntV(saturating_pow(args[1].n, args[2].n)))

\* num_cmp (builtin_lt, builtin_gt) over Int arguments
num_cmp(args, op) ==
    IF Len(args) # 2 THEN Err(ArityError)
    ELSE IF ~AllInts(args) THEN Err(TypeError("number", type_name(FirstNonNumber(args))))
    ELSE Ok(Bool(IF op = "<" THEN args[1].n < args[2].n ELSE args[1].n > args[2].n))

\* The built-ins the model gives a meaning to; programs call no other.
PureBuiltins == {"+", "-", "*", "//", "mod", "^", "<", ">"}

\* the built-ins that call their first argument
HigherOrder == {"map", "reduce", "scan"}

\* Value::Builtin { func, .. } => func(args, env)
call_builtin(name, args) ==
    CASE name = "+" -> builtin_add(args)
      [] name = "-" -> builtin_sub(args)
      [] name = "*" -> builtin_mul(args)
      [] name = "//" -> builtin_int_div(args)
      [] name = "mod" -> builtin_mod(args)
      [] name = "^" -> builtin_pow(args)
      [] name \in {"<", ">"} -> num_cmp(args, name)

----------------------------------------------------------------------------
(* The call stack.  A frame is one active Rust call: fn the function, pc   *)
(* the place it has reached, e and d its env and depth arguments, and the  *)
(* locals the function has: v (a form or callable), xs (forms still to     *)
(* evaluate), acc (values collected), ms / out (pending and collected      *)
(* unordered items), ss (names), body (forms of a body), path, prev and    *)
(* info (the module being loaded, the saved source dir, its ModuleInfo).   *)

NoDir == [some |-> FALSE, dir |-> <<>>]
SomeDir(d) == [some |-> TRUE, dir |-> d]

NoFrame == [fn |-> "", pc |-> "entry"]

EvalCall(form) == [fn |-> "eval", pc |-> "entry", v |-> form]
EvalValue(form, e, d) ==
    [fn |-> "eval_value_impl", pc |-> "entry", e |-> e, d |-> d, v |-> form,
     xs |-> <<>>, acc |-> <<>>, ms |-> {}, out |-> {}]
EvalList(items, e, d) ==
    [fn |-> "eval_list_impl", pc |-> "entry", e |-> e, d |-> d, v |-> Nil,
     xs |-> items, acc |-> <<>>]
Special(fn, args, e, d) ==
    [fn |-> fn, pc |-> "entry", e |-> e, d |-> d, v |-> Nil, xs |-> args,
     acc |-> <<>>, ss |-> <<>>, body |-> <<>>]
Apply(func, args, e, d) ==
    [fn |-> "apply_impl", pc |-> "entry", e |-> e, d |-> d, v |-> func, acc |-> args]
MacroCall(func, raw_args, d) ==
    [fn |-> "apply_macro", pc |-> "entry", d |-> d, v |-> func, xs |-> raw_args]
DoForms(forms, e, d) ==
    [fn |-> "eval_do_forms_impl", pc |-> "entry", e |-> e, d |-> d, xs |-> forms]
\* a built-in that calls back: it is given the arguments and the env, no depth
BuiltinCall(name, args, e) ==
    [fn |-> "builtin_" \o name, pc |-> "entry", e |-> e, v |-> Nil, xs |-> args,
     acc |-> <<>>]

Top == stack[Len(stack)]
Below == SubSeq(stack, 1, Len(stack) - 1)

\* What a step of a function does: return a Result to its caller, call a
\* function and wait for its Result (cont is the caller's frame meanwhile),
\* or hand over to another function whose Result it returns as it is (goto).
EResult(r, store) == [op |-> "return", res |-> r, top |-> NoFrame, callee |-> NoFrame, envs |-> store]
EReturn(v, store) == EResult(Ok(v), store)
ERaise(e, store) == EResult(Err(e), store)
ECall(cont, callee, store) == [op |-> "call", res |-> NoRet, top |-> cont, callee |-> callee, envs |-> store]
EGoto(frame, store) == [op |-> "goto", res |-> NoRet, top |-> frame, callee |-> NoFrame, envs |-> store]

\* The callers that inspect an Err instead of passing it on with `?`.
Handlers == {"eval", "ensure_module_loaded"}

\* `?`: an Err returns through every caller up to the nearest handler.
Unwind(stk) ==
    LET hs == {i \in DOMAIN stk : stk[i].fn \in Handlers}
    IN  IF hs = {} THEN <<>>
        ELSE SubSeq(stk, 1, CHOOSE h \in hs : \A i \in hs : i <= h)

NextStack(eff) ==
    CASE eff.op = "call" -> Append(Append(Below, eff.top), eff.callee)
      [] eff.op = "goto" -> Append(Below, eff.top)
      [] eff.op = "return" ->
            IF eff.res.st = "err" THEN Unwind(Below)
            ELSE IF eff.res.st = "panic" THEN SubSeq(stack, 1, 1)
            ELSE Below

\* the build settles what an overflow of i64 arithmetic does
Built(eff, overflow_checks) ==
    IF eff.res.st = "overflow"
    THEN [eff EXCEPT !.res = IF overflow_checks THEN Panic ELSE Ok(eff.res.v)]
    ELSE eff

Do(eff) ==
    /\ envs' = eff.envs
    /\ ret' = eff.res
    /\ stack' = NextStack(eff)

\* The Envs some Rc outside the store still points to.
FrameRoots(f) ==
    LET has(field) == field \in DOMAIN f
    IN  (IF has("e") THEN {f.e} ELSE {})
        \cup (IF has("v") THEN EnvRefs(f.v) ELSE {})
        \cup (IF has("xs") THEN EnvRefsSeq(f.xs) ELSE {})
        \cup (IF has("acc") THEN EnvRefsSeq(f.acc) ELSE {})
        \cup (IF has("body") THEN EnvRefsSeq(f.body) ELSE {})
        \cup (IF has("ms") THEN UNION {EnvRefs(x) : x \in f.ms \cup f.out} ELSE {})

Roots(stk, r) ==
    UNION {FrameRoots(stk[i]) : i \in DOMAIN stk} \cup EnvRefs(r.v)
        \cup EnvRefs(last.res.v)

Max(a, b) == IF a >= b THEN a ELSE b

----------------------------------------------------------------------------
(* eval/core.rs *)

SPECIAL_FORM_HEADS ==
    {"def", "defn", "fn", "if", "do", "let", "quote", "defmacro", "deftype",
     "use", "|>", "recur", "loop"}

\* the handler eval_list_impl dispatches a special-form head to
SpecialHandler(head) ==
    CASE head = "|>" -> "special_pipe"
      [] OTHER -> "special_" \o head

\* if depth > MAX_STACK_DEPTH { return Err(StackOverflow) }
\* the guard with `>=` taken for `>`, one level late
DepthGuardLate(depth) == depth > MAX_STACK_DEPTH + 1

DepthGuard(depth) == depth > MAX_STACK_DEPTH

\* the unordered items of a Set / Map form that are still to be evaluated
Pending(f) ==
    IF f.pc # "entry" THEN f.ms
    ELSE IF f.v.k \in {"set", "map"} THEN f.v.ms
    ELSE {}

\* HashMap::insert
MapInsert(entries, key, val) ==
    {en \in entries : en.xs[1] # key} \cup {Entry(key, val)}

\* eval_value_impl; pick is the item a HashSet / HashMap iteration yields next
eval_value_impl(f, r, store, pick) ==
    LET form == f.v
        sub(x, cont) == ECall(cont, EvalValue(x, f.e, f.d + 1), store)
    IN
    IF f.pc = "entry" THEN
        IF DepthGuard(f.d) THEN ERaise(StackOverflow, store)
        ELSE CASE form.k = "symbol" ->
                    LET o == get(store, f.e, form.s)
                    IN  IF o.some THEN EReturn(o.v, store)
                        ELSE ERaise(UndefinedSymbol(form.s), store)
               [] form.k = "vector" ->
                    IF form.xs = <<>> THEN EReturn(Vector(<<>>), store)
                    ELSE sub(Head(form.xs), [f EXCEPT !.pc = "vector", !.xs = Tail(form.xs)])
               [] form.k = "set" ->
                    IF form.ms = {} THEN EReturn(Set({}), store)
                    ELSE sub(pick, [f EXCEPT !.pc = "set", !.ms = form.ms \ {pick}])
               [] form.k = "map" ->
                    IF form.ms = {} THEN EReturn(Map({}), store)
                    ELSE sub(pick.xs[1], [f EXCEPT !.pc = "map_key", !.ms = form.ms \ {pick},
                                                   !.xs = <<pick.xs[2]>>])
               [] form.k = "list" -> EGoto(EvalList(form.xs, f.e, f.d + 1), store)
               [] OTHER -> EReturn(form, store)
    ELSE IF IsRecur(r.v) THEN ERaise(recur_tail_position_error, store)
    ELSE CASE f.pc = "vector" ->
                LET out == Append(f.acc, r.v)
                IN  IF f.xs = <<>> THEN EReturn(Vector(out), store)
                    ELSE sub(Head(f.xs), [f EXCEPT !.acc = out, !.xs = Tail(f.xs)])
           [] f.pc = "set" ->
                LET out == f.out \cup {r.v}
                IN  IF f.ms = {} THEN EReturn(Set(out), store)
                    ELSE sub(pick, [f EXCEPT !.out = out, !.ms = f.ms \ {pick}])
           [] f.pc = "map_key" ->
                sub(f.xs[1], [f EXCEPT !.pc = "map_value", !.acc = <<r.v>>])
           [] f.pc = "map_value" ->
                LET out == MapInsert(f.out, f.acc[1], r.v)
                IN  IF f.ms = {} THEN EReturn(Map(out), store)
                    ELSE sub(pick.xs[1], [f EXCEPT !.pc = "map_key", !.out = out,
                                                   !.ms = f.ms \ {pick}, !.xs = <<pick.xs[2]>>])

\* eval_list_impl
eval_list_impl(f, r, store) ==
    LET items == f.xs
        sub(x, cont) == ECall(cont, EvalValue(x, f.e, f.d + 1), store)
    IN
    CASE f.pc = "entry" ->
            IF items = <<>> THEN EReturn(List(<<>>), store)
            ELSE IF items[1].k = "symbol" /\ items[1].s \in SPECIAL_FORM_HEADS THEN
                IF items[1].s = "deftype" THEN EReturn(Nil, store)
                ELSE EGoto(Special(SpecialHandler(items[1].s), Tail(items), f.e, f.d), store)
            ELSE sub(items[1], [f EXCEPT !.pc = "callee"])
      [] f.pc = "callee" ->
            IF r.v.k = "macro" THEN
                ECall([f EXCEPT !.pc = "expanded"], MacroCall(r.v, Tail(items), f.d + 1), store)
            ELSE IF Len(items) = 1 THEN EGoto(Apply(r.v, <<>>, f.e, f.d + 1), store)
            ELSE sub(items[2], [f EXCEPT !.pc = "args", !.v = r.v, !.xs = Tail(Tail(items))])
      [] f.pc = "expanded" -> EGoto(EvalValue(r.v, f.e, f.d + 1), store)
      [] f.pc = "args" ->
            IF IsRecur(r.v) THEN ERaise(recur_tail_position_error, store)
            ELSE LET args == Append(f.acc, r.v)
                 IN  IF f.xs = <<>> THEN EGoto(Apply(f.v, args, f.e, f.d + 1), store)
                     ELSE sub(Head(f.xs), [f EXCEPT !.acc = args, !.xs = Tail(f.xs)])

\* a re-entry that is a nested call: one level deeper each time
ReentryDepthNested(depth) == depth + 1

\* apply_impl: the depth the body is evaluated at when the loop is re-entered
\* after a Recur (the loop keeps using the same `depth`)
ReentryDepth(depth) == depth

\* apply_impl; live are the Envs that outlive the iteration's new_env
apply_impl(f, r, store, live) ==
    LET func == f.v
        enter(args, st, fr) ==
            LET id == NewEnvId(st)
            IN  ECall([fr EXCEPT !.pc = "body"], DoForms(func.xs, id, fr.d + 1),
                      define_all(Alloc(st, func.n), id, func.ps, args))
    IN
    IF f.pc = "entry" THEN
        IF DepthGuard(f.d) THEN ERaise(StackOverflow, store)
        ELSE CASE func.k = "builtin" ->
                    IF func.s \in HigherOrder THEN
                        ECall([f EXCEPT !.pc = "builtin"], BuiltinCall(func.s, f.acc, f.e),
                              store)
                    ELSE EResult(call_builtin(func.s, f.acc), store)
               [] func.k = "lambda" ->
                    IF Len(f.acc) # Len(func.ps) THEN ERaise(ArityError, store)
                    ELSE enter(f.acc, store, f)
               [] OTHER -> ERaise(NotCallable(type_name(func)), store)
    ELSE IF f.pc = "builtin" THEN EResult(r, store)
    ELSE IF IsRecur(r.v) THEN
        IF Len(r.v.xs) # Len(func.ps) THEN ERaise(ArityError, store)
        ELSE enter(r.v.xs, Drop(store, live), [f EXCEPT !.d = ReentryDepth(f.d)])
    ELSE EReturn(r.v, Drop(store, live))

\* apply: `apply_impl(func, args, env, 0)`
apply(func, args, e) == Apply(func, args, e, 0)

\* builtin_map: out is pushed the result of each call of f
builtin_map(f, r, store) ==
    LET args == f.xs
        each(func, items, out) ==
            IF items = <<>> THEN EReturn(Vector(out), store)
            ELSE ECall([f EXCEPT !.pc = "item", !.v = func, !.xs = Tail(items), !.acc = out],
                       apply(func, <<Head(items)>>, f.e), store)
    IN
    IF f.pc = "entry" THEN
        IF Len(args) # 2 THEN ERaise(ArityError, store)
        ELSE IF args[2].k # "vector" THEN
            ERaise(TypeError("vector", type_name(args[2])), store)
        ELSE each(args[1], args[2].xs, <<>>)
    ELSE each(f.v, f.xs, Append(f.acc, r.v))

\* builtin_reduce: acc is the one value in the frame's acc
builtin_reduce(f, r, store) ==
    LET args == f.xs
        each(func, items, acc) ==
            IF items = <<>> THEN EReturn(acc, store)
            ELSE ECall([f EXCEPT !.pc = "item", !.v = func, !.xs = Tail(items),
                                 !.acc = <<acc>>],
                       apply(func, <<acc, Head(items)>>, f.e), store)
    IN
    IF f.pc = "entry" THEN
        IF Len(args) # 3 THEN ERaise(ArityError, store)
        ELSE IF args[3].k # "vector" THEN
            ERaise(TypeError("vector", type_name(args[3])), store)
        ELSE each(args[1], args[3].xs, args[2])
    ELSE each(f.v, f.xs, r.v)

\* builtin_scan: the frame's acc is acc followed by out
builtin_scan(f, r, store) ==
    LET args == f.xs
        each(func, items, acc, out) ==
            IF items = <<>> THEN EReturn(Vector(out), store)
            ELSE ECall([f EXCEPT !.pc = "item", !.v = func, !.xs = Tail(items),
                                 !.acc = <<acc>> \o out],
                       apply(func, <<acc, Head(items)>>, f.e), store)
    IN
    IF f.pc = "entry" THEN
        IF Len(args) # 3 THEN ERaise(ArityError, store)
        ELSE IF args[3].k # "vector" THEN
            ERaise(TypeError("vector", type_name(args[3])), store)
        ELSE each(args[1], args[3].xs, args[2], <<>>)
    ELSE each(f.v, f.xs, r.v, Append(Tail(f.acc), r.v))

\* apply_macro
apply_macro(f, r, store) ==
    LET func == f.v
    IN
    IF f.pc = "entry" THEN
        IF func.k # "macro" THEN ERaise(NotCallable(type_name(func)), store)
        ELSE IF Len(f.xs) # Len(func.ps) THEN ERaise(ArityError, store)
        ELSE LET id == NewEnvId(store)
             IN  ECall([f EXCEPT !.pc = "body"], DoForms(func.xs, id, f.d + 1),
                       define_all(Alloc(store, func.n), id, func.ps, f.xs))
    ELSE EReturn(r.v, store)

\* eval_do_forms_impl without the check of core.rs:260-262
RecurNotLastUnchecked(rest, value) == FALSE

\* eval_do_forms_impl: `i + 1 != forms.len() && matches!(last, Value::Recur(_))`
RecurNotLast(rest, value) == rest # <<>> /\ IsRecur(value)

\* eval_do_forms_impl
eval_do_forms_impl(f, r, store) ==
    LET next(forms) ==
            ECall([f EXCEPT !.pc = "form", !.xs = Tail(forms)],
                  EvalValue(Head(forms), f.e, f.d + 1), store)
    IN
    IF f.pc = "entry" THEN
        IF f.xs = <<>> THEN EReturn(Nil, store) ELSE next(f.xs)
    ELSE IF RecurNotLast(f.xs, r.v) THEN ERaise(recur_tail_position_error, store)
    ELSE IF f.xs = <<>> THEN EReturn(r.v, store)
    ELSE next(f.xs)

----------------------------------------------------------------------------
(* eval/special_forms.rs *)

\* special_def
special_def(f, r, store) ==
    LET args == f.xs
    IN
    IF f.pc = "entry" THEN
        IF Len(args) # 2 THEN ERaise(ArityError, store)
        ELSE IF args[1].k # "symbol" THEN ERaise(TypeError("symbol", type_name(args[1])), store)
        ELSE ECall([f EXCEPT !.pc = "value"], EvalValue(args[2], f.e, f.d + 1), store)
    ELSE IF IsRecur(r.v) THEN ERaise(recur_tail_position_error, store)
    ELSE EReturn(r.v, define_global(store, f.e, args[1].s, r.v))

\* parse_params, as a Result whose value is the Vec<String>
parse_params(form) ==
    IF form.k # "vector" THEN
        [st |-> "err", ps |-> <<>>, err |-> TypeError("vector", type_name(form))]
    ELSE LET bad == {i \in DOMAIN form.xs : form.xs[i].k # "symbol"}
         IN  IF bad # {} THEN
                 [st |-> "err", ps |-> <<>>,
                  err |-> TypeError("symbol",
                            type_name(form.xs[CHOOSE i \in bad : \A j \in bad : i <= j]))]
             ELSE [st |-> "ok", ps |-> [i \in DOMAIN form.xs |-> form.xs[i].s], err |-> NoError]

\* special_fn
special_fn(args, env) ==
    IF Len(args) < 2 THEN Err(Custom("fn expects: (fn [params] body...)"))
    ELSE LET params == parse_params(args[1])
         IN  IF params.st = "err" THEN Err(params.err)
             ELSE Ok(Lambda(params.ps, Tail(args), env))

\* special_defn
special_defn(f, r, store) ==
    LET args == f.xs
    IN
    IF Len(args) < 3 THEN ERaise(Custom("defn expects: (defn name [params] body...)"), store)
    ELSE IF args[1].k # "symbol" THEN ERaise(TypeError("symbol", type_name(args[1])), store)
    ELSE LET lambda == special_fn(Tail(args), f.e)
         IN  IF lambda.st = "err" THEN EResult(lambda, store)
             ELSE EReturn(lambda.v, define_global(store, f.e, args[1].s, lambda.v))

\* special_defmacro
special_defmacro(f, r, store) ==
    LET args == f.xs
    IN
    IF Len(args) < 3 THEN ERaise(Custom("defmacro expects: (defmacro name [params] body...)"), store)
    ELSE IF args[1].k # "symbol" THEN ERaise(TypeError("symbol", type_name(args[1])), store)
    ELSE LET params == parse_params(args[2])
             mac == Macro(params.ps, Tail(Tail(args)), f.e)
         IN  IF params.st = "err" THEN ERaise(params.err, store)
             ELSE EReturn(mac, define_global(store, f.e, args[1].s, mac))

\* special_if
special_if(f, r, store) ==
    LET args == f.xs
    IN
    IF f.pc = "entry" THEN
        IF Len(args) # 3 THEN ERaise(ArityError, store)
        ELSE ECall([f EXCEPT !.pc = "cond"], EvalValue(args[1], f.e, f.d + 1), store)
    ELSE IF IsRecur(r.v) THEN ERaise(recur_tail_position_error, store)
    ELSE IF is_truthy(r.v) THEN EGoto(EvalValue(args[2], f.e, f.d + 1), store)
    ELSE EGoto(EvalValue(args[3], f.e, f.d + 1), store)

\* special_do
special_do(f, r, store) == EGoto(DoForms(f.xs, f.e, f.d + 1), store)

\* special_quote
special_quote(f, r, store) ==
    IF Len(f.xs) # 1 THEN ERaise(ArityError, store) ELSE EReturn(f.xs[1], store)

\* special_let; once new_env exists the frame's e is new_env
special_let(f, r, store) ==
    LET args == f.xs
        bind(bs, st, fr) ==
            IF bs = <<>> THEN EGoto(DoForms(fr.body, fr.e, fr.d + 1), st)
            ELSE IF bs[1].k # "symbol" THEN ERaise(TypeError("symbol", type_name(bs[1])), st)
            ELSE ECall([fr EXCEPT !.pc = "value", !.v = bs[1], !.xs = Tail(Tail(bs))],
                       EvalValue(bs[2], fr.e, fr.d + 1), st)
    IN
    IF f.pc = "entry" THEN
        IF Len(args) < 2 THEN ERaise(Custom("let expects: (let [name value ...] body...)"), store)
        ELSE IF args[1].k # "vector" THEN ERaise(TypeError("vector", type_name(args[1])), store)
        ELSE IF Len(args[1].xs) % 2 # 0 THEN
            ERaise(Custom("let bindings must have even number of forms"), store)
        ELSE bind(args[1].xs, Alloc(store, f.e),
                  [f EXCEPT !.e = NewEnvId(store), !.body = Tail(args)])
    ELSE IF IsRecur(r.v) THEN ERaise(recur_tail_position_error, store)
    ELSE bind(f.xs, define(store, f.e, f.v.s, r.v), f)

\* the form special_pipe evaluates for a stage, given the value threaded so far
pipe_next_form(step, acc) ==
    IF step.k = "list" /\ step.xs # <<>>
    THEN List(<<step.xs[1], acc>> \o Tail(step.xs))
    ELSE List(<<step, acc>>)

\* special_pipe
special_pipe(f, r, store) ==
    IF f.pc = "entry" THEN
        IF f.xs = <<>> THEN EReturn(Nil, store)
        ELSE ECall([f EXCEPT !.pc = "acc", !.xs = Tail(f.xs)],
                   EvalValue(Head(f.xs), f.e, f.d + 1), store)
    ELSE IF IsRecur(r.v) THEN ERaise(recur_tail_position_error, store)
    ELSE IF f.xs = <<>> THEN EReturn(r.v, store)
    ELSE ECall([f EXCEPT !.xs = Tail(f.xs)],
               EvalValue(pipe_next_form(Head(f.xs), r.v), f.e, f.d + 1), store)

\* special_recur
special_recur(f, r, store) ==
    LET next(forms, out) ==
            IF forms = <<>> THEN EReturn(Recur(out), store)
            ELSE ECall([f EXCEPT !.pc = "arg", !.xs = Tail(forms), !.acc = out],
                       EvalValue(Head(forms), f.e, f.d + 1), store)
    IN
    IF f.pc = "entry" THEN next(f.xs, <<>>)
    ELSE IF IsRecur(r.v) THEN ERaise(recur_tail_position_error, store)
    ELSE next(f.xs, Append(f.acc, r.v))

\* special_loop; once loop_env exists the frame's e is loop_env; live are the
\* Envs that outlive the temporaries of an iteration
special_loop(f, r, store, live) ==
    LET args == f.xs
        again(st, fr) ==
            IF DepthGuard(fr.d) THEN ERaise(StackOverflow, st)
            ELSE ECall([fr EXCEPT !.pc = "body", !.v = Nil],
                       DoForms(fr.body, fr.e, fr.d + 1), st)
        bind(bs, st, fr) ==
            IF bs = <<>> THEN again(st, fr)
            ELSE IF bs[1].k # "symbol" THEN ERaise(TypeError("symbol", type_name(bs[1])), st)
            ELSE ECall([fr EXCEPT !.pc = "value", !.v = bs[1], !.xs = Tail(Tail(bs))],
                       EvalValue(bs[2], fr.e, fr.d + 1), st)
    IN
    CASE f.pc = "entry" ->
            IF Len(args) < 2 THEN
                ERaise(Custom("loop expects: (loop [name value ...] body...)"), store)
            ELSE IF args[1].k # "vector" THEN
                ERaise(TypeError("vector", type_name(args[1])), store)
            ELSE IF Len(args[1].xs) % 2 # 0 THEN
                ERaise(Custom("loop bindings must have even number of forms"), store)
            ELSE bind(args[1].xs, Alloc(store, f.e),
                      [f EXCEPT !.e = NewEnvId(store), !.body = Tail(args)])
      [] f.pc = "value" ->
            IF IsRecur(r.v) THEN ERaise(recur_tail_position_error, store)
            ELSE bind(f.xs, define(store, f.e, f.v.s, r.v),
                      [f EXCEPT !.ss = Append(f.ss, f.v.s)])
      [] f.pc = "body" ->
            IF IsRecur(r.v) THEN
                IF Len(r.v.xs) # Len(f.ss) THEN ERaise(ArityError, store)
                ELSE again(Drop(define_all(store, f.e, f.ss, r.v.xs), live),
                           [f EXCEPT !.d = ReentryDepth(f.d)])
            ELSE EReturn(r.v, store)

----------------------------------------------------------------------------
(* The file system.  A path is the sequence of its components; an entry is *)
(* a regular file with the forms its text parses to, a file whose text     *)
(* does not parse, an entry read_to_string fails on, or a symbolic link.   *)

File(forms) == [st |-> "file", forms |-> forms, target |-> <<>>]
BadSyntax == [st |-> "badsyntax", forms |-> <<>>, target |-> <<>>]
Unreadable == [st |-> "unreadable", forms |-> <<>>, target |-> <<>>]
Link(target) == [st |-> "link", forms |-> <<>>, target |-> target]

\* std::env::current_dir()
current_dir == <<"proj">>

\* Path::parent
parent(path) == SubSeq(path, 1, Len(path) - 1)

\* Path::display
RECURSIVE display(_)
display(path) == IF path = <<>> THEN "" ELSE "/" \o Head(path) \o display(Tail(path))

\* fs::canonicalize: follows links; fails on a path that does not exist
RECURSIVE canonicalize(_, _)
canonicalize(fs, path) ==
    IF path \notin DOMAIN fs THEN [some |-> FALSE, path |-> <<>>]
    ELSE IF fs[path].st = "link" THEN canonicalize(fs, fs[path].target)
    ELSE [some |-> TRUE, path |-> path]

----------------------------------------------------------------------------
(* eval/use_form.rs: rewriting a module's forms to mangled names *)

\* module_key_hash: a key that is a function of the path (the hasher is taken
\* to be free of collisions, so the key also determines the path)
module_key_hash(path) == display(path)

\* format!("__use__{module_key}__{orig}")
mangled_name(module_key, orig) == "__use__" \o module_key \o "__" \o orig

\* the symbols among the params of a defn / defmacro / fn
ParamSymbols(params) ==
    {params[i].s : i \in {j \in DOMAIN params : params[j].k = "symbol"}}

\* mangle.get(name).cloned().map(Value::Symbol).unwrap_or_else(|| items[1].clone())
new_name(name, mangle) ==
    IF name.s \in DOMAIN mangle THEN Symbol(mangle[name.s]) ELSE name

\* a defmacro whose body is rewritten like any other form: quoted forms are
\* left alone unless the caller asked for them (use_form.rs:409 passes `true`)
defmacro_rewrite_as_given(rewrite_in_quote) == rewrite_in_quote

\* rewrite_list_impl (defmacro): the rewrite_in_quote its body is rewritten with
defmacro_rewrite_in_quote(rewrite_in_quote) == TRUE

\* a rewrite that goes into every quoted form
quote_always_rewritten(head_sym, len, rewrite_in_quote) == FALSE

\* rewrite_list_impl: `head_sym == Some("quote") && items.len() == 2 &&
\* !rewrite_in_quote`: the list is returned as it is
quote_preserved(head_sym, len, rewrite_in_quote) ==
    head_sym = "quote" /\ len = 2 /\ ~rewrite_in_quote

RECURSIVE rewrite_form_impl(_, _, _, _)
RECURSIVE rewrite_list_impl(_, _, _, _)
RECURSIVE rewrite_bindings(_, _, _, _)

\* the binding loop of rewrite_list_impl (let, loop): the new bindings and the
\* names in scope after them
rewrite_bindings(bindings, mangle, scoped, rewrite_in_quote) ==
    IF bindings = <<>> THEN [bs |-> <<>>, scoped |-> scoped]
    ELSE LET name == bindings[1]
             value == rewrite_form_impl(bindings[2], mangle, scoped, rewrite_in_quote)
             rest == rewrite_bindings(Tail(Tail(bindings)), mangle,
                        IF name.k = "symbol" THEN scoped \cup {name.s} ELSE scoped,
                        rewrite_in_quote)
         IN  [bs |-> <<name, value>> \o rest.bs, scoped |-> rest.scoped]

\* rewrite_form_impl (Map entries whose rewritten keys coincide are not merged)
rewrite_form_impl(form, mangle, shadowed, rewrite_in_quote) ==
    LET rw(x) == rewrite_form_impl(x, mangle, shadowed, rewrite_in_quote)
    IN
    CASE form.k = "symbol" ->
            IF form.s \in shadowed THEN form
            ELSE IF form.s \in DOMAIN mangle THEN Symbol(mangle[form.s])
            ELSE form
      [] form.k = "list" -> rewrite_list_impl(form.xs, mangle, shadowed, rewrite_in_quote)
      [] form.k = "vector" -> Vector([i \in DOMAIN form.xs |-> rw(form.xs[i])])
      [] form.k = "map" -> Map({Entry(rw(en.xs[1]), rw(en.xs[2])) : en \in form.ms})
      [] form.k = "set" -> Set({rw(x) : x \in form.ms})
      [] OTHER -> form

\* rewrite_list_impl
rewrite_list_impl(items, mangle, shadowed, rewrite_in_quote) ==
    LET head_sym == IF items # <<>> /\ items[1].k = "symbol" THEN items[1].s ELSE ""
        each(forms, sh, q) == [i \in DOMAIN forms |-> rewrite_form_impl(forms[i], mangle, sh, q)]
        from(n) == SubSeq(items, n, Len(items))
    IN
    IF items = <<>> THEN List(<<>>)
    ELSE IF quote_preserved(head_sym, Len(items), rewrite_in_quote) THEN List(items)
    ELSE CASE head_sym = "def" ->
                IF Len(items) # 3 \/ items[2].k # "symbol" THEN List(items)
                ELSE List(<<items[1], new_name(items[2], mangle),
                            rewrite_form_impl(items[3], mangle, shadowed, rewrite_in_quote)>>)
           [] head_sym = "defn" ->
                IF Len(items) < 4 \/ items[2].k # "symbol" \/ items[3].k # "vector"
                THEN List(items)
                ELSE List(<<items[1], new_name(items[2], mangle), items[3]>>
                          \o each(from(4), shadowed \cup ParamSymbols(items[3].xs),
                                  rewrite_in_quote))
           [] head_sym = "defmacro" ->
                IF Len(items) < 4 \/ items[2].k # "symbol" \/ items[3].k # "vector"
                THEN List(items)
                ELSE List(<<items[1], new_name(items[2], mangle), items[3]>>
                          \o each(from(4), shadowed \cup ParamSymbols(items[3].xs),
                                  defmacro_rewrite_in_quote(rewrite_in_quote)))
           [] head_sym \in {"let", "loop"} ->
                IF Len(items) < 3 \/ items[2].k # "vector" THEN List(items)
                ELSE IF Len(items[2].xs) % 2 # 0 THEN List(items)
                ELSE LET b == rewrite_bindings(items[2].xs, mangle, shadowed, rewrite_in_quote)
                     IN  List(<<items[1], Vector(b.bs)>>
                              \o each(from(3), b.scoped, rewrite_in_quote))
           [] head_sym = "fn" ->
                IF Len(items) < 3 \/ items[2].k # "vector" THEN List(items)
                ELSE List(<<items[1], items[2]>>
                          \o each(from(3), shadowed \cup ParamSymbols(items[2].xs),
                                  rewrite_in_quote))
           [] head_sym = "quote" ->
                List(<<items[1]>> \o each(Tail(items), shadowed, rewrite_in_quote))
           [] OTHER ->
                List(<<IF head_sym \in SPECIAL_FORM_HEADS THEN items[1]
                       ELSE rewrite_form_impl(items[1], mangle, shadowed, rewrite_in_quote)>>
                     \o each(Tail(items), shadowed, rewrite_in_quote))

\* rewrite_module_form
rewrite_module_form(form, mangle, in_defmacro) ==
    rewrite_form_impl(form, mangle, {}, in_defmacro)

\* collect_module_exports, as a Result whose value is the HashSet<String>
collect_module_exports(forms) ==
    LET defs == {i \in DOMAIN forms :
                    /\ forms[i].k = "list"
                    /\ Len(forms[i].xs) >= 2
                    /\ forms[i].xs[1].k = "symbol"
                    /\ forms[i].xs[1].s \in {"def", "defn", "defmacro"}}
        bad == {i \in defs : forms[i].xs[2].k # "symbol"}
    IN  IF bad # {} THEN
            [st |-> "err", names |-> {},
             err |-> Use("InvalidExportForm",
                         forms[CHOOSE i \in bad : \A j \in bad : i <= j].xs[1].s)]
        ELSE [st |-> "ok", names |-> {forms[i].xs[2].s : i \in defs}, err |-> NoError]

----------------------------------------------------------------------------
(* eval/use_form.rs: special_use and ensure_module_loaded *)

\* module_spec.split('.').filter(|p| !p.is_empty()), for the module names in use
split_dots(module_spec) ==
    CASE module_spec = "lib.outer" -> <<"lib", "outer">>
      [] module_spec = "lib.broken" -> <<"lib", "broken">>
      [] module_spec = "super.mod" -> <<"super", "mod">>
      [] module_spec = "." -> <<>>
      [] OTHER -> <<module_spec>>

\* resolve_module_path: the loop over the directory segments, as Option<PathBuf>
RECURSIVE walk_segments(_, _)
walk_segments(dir, segs) ==
    IF segs = <<>> THEN [some |-> TRUE, dir |-> dir]
    ELSE IF Head(segs) = "super" THEN
        IF dir = <<>> THEN [some |-> FALSE, dir |-> <<>>]
        ELSE walk_segments(parent(dir), Tail(segs))
    ELSE walk_segments(Append(dir, Head(segs)), Tail(segs))

\* resolve_module_path, as a Result whose value is the PathBuf; source_dir is
\* the root's Option<PathBuf>
resolve_module_path(module_spec, source_dir) ==
    LET base_dir == IF source_dir.some THEN source_dir.dir ELSE current_dir
        parts == split_dots(module_spec)
        dir == walk_segments(base_dir, parent(parts))
        file == parts[Len(parts)]
        fail(sub) == [st |-> "err", path |-> <<>>, err |-> Use(sub, module_spec)]
    IN  IF parts = <<>> THEN fail("EmptyModulePath")
        ELSE IF ~dir.some THEN fail("SuperBeyondRoot")
        ELSE IF file = "super" THEN fail("LastSegmentCannotBeSuper")
        ELSE [st |-> "ok", path |-> Append(dir.dir, file \o ".vaca"), err |-> NoError]

\* parse_use_import_list: the loop from item i on, as a Result whose value is
\* the Vec<(String, String)> of (orig, visible)
RECURSIVE import_entries(_, _)
import_entries(items, i) ==
    LET more(pair, j) ==
            LET rest == import_entries(items, j)
            IN  IF rest.st = "err" THEN rest
                ELSE [st |-> "ok", pairs |-> <<pair>> \o rest.pairs, err |-> NoError]
        fail(sub, got) == [st |-> "err", pairs |-> <<>>, err |-> Use(sub, type_name(got))]
    IN
    IF i > Len(items) THEN [st |-> "ok", pairs |-> <<>>, err |-> NoError]
    ELSE IF items[i].k # "symbol" THEN fail("ExpectedImportSymbol", items[i])
    ELSE IF i + 2 <= Len(items) /\ items[i + 1].k = "keyword" /\ items[i + 1].s = "as" THEN
        IF items[i + 2].k # "symbol" THEN fail("ExpectedAliasSymbol", items[i + 2])
        ELSE more(<<items[i].s, items[i + 2].s>>, i + 3)
    ELSE more(<<items[i].s, items[i].s>>, i + 1)

\* parse_use_import_list
parse_use_import_list(form) ==
    IF form.k # "vector" THEN
        [st |-> "err", pairs |-> <<>>, err |-> Use("ExpectedImportVector", type_name(form))]
    ELSE import_entries(form.xs, 1)

\* the two checks of use_form.rs:43-52 in the other order
visibility_collision_first(exports, is_local, orig) ==
    IF is_local THEN "NameCollision"
    ELSE IF orig \notin exports THEN "MissingExport"
    ELSE "define"

\* special_use: what the loop does with one requested (orig, visible)
visibility(exports, is_local, orig) ==
    IF orig \notin exports THEN "MissingExport"
    ELSE IF is_local THEN "NameCollision"
    ELSE "define"

\* an import that forgets the alias and installs the original name
installed_name_original(orig, visible) == orig

\* special_use: the name that `define_global(&root, visible, value)` defines
installed_name(orig, visible) == visible

\* special_use: the loop that defines the visible names in the root env; the
\* definitions made before a failing pair stay
RECURSIVE define_visible(_, _, _, _, _)
define_visible(requested, info, store, root, module_spec) ==
    IF requested = <<>> THEN [res |-> Ok(Nil), store |-> store]
    ELSE LET orig == requested[1][1]
             visible == requested[1][2]
             what == visibility(info.exports, contains_local(store, root, visible), orig)
             value == get(store, root, info.mangle_map[orig])
         IN  IF what = "MissingExport" THEN
                 [res |-> Err(Use("MissingExport", orig)), store |-> store]
             ELSE IF what = "NameCollision" THEN
                 [res |-> Err(Use("NameCollision", visible)), store |-> store]
             ELSE IF orig \notin DOMAIN info.mangle_map THEN
                 [res |-> Err(Use("Internal", "missing mangle")), store |-> store]
             ELSE IF ~value.some THEN
                 [res |-> Err(Use("Internal", "missing value")), store |-> store]
             ELSE define_visible(Tail(requested), info,
                                 define_global(store, root, installed_name(orig, visible),
                                               value.v),
                                 root, module_spec)

EnsureLoaded(module_path, root, d) ==
    [fn |-> "ensure_module_loaded", pc |-> "entry", e |-> root, d |-> d, xs |-> <<>>,
     path |-> module_path, prev |-> NoDir, info |-> NoInfo]

\* The orders in which a HashSet of names can be iterated.
RECURSIVE Orders(_)
Orders(S) ==
    IF S = {} THEN {<<>>}
    ELSE UNION {{<<x>> \o o : o \in Orders(S \ {x})} : x \in S}

\* special_use; source_dir is the root's, order the iteration order of the
\* exports when all of them are imported
special_use(f, r, store, source_dir, order) ==
    LET args == f.xs
        root == root_env(store, f.e)
    IN
    IF f.pc = "entry" THEN
        IF args = <<>> \/ Len(args) > 2 THEN ERaise(Use("BadArity", ""), store)
        ELSE IF args[1].k # "symbol" THEN
            ERaise(Use("ExpectedModuleSymbol", type_name(args[1])), store)
        ELSE LET module_path == resolve_module_path(args[1].s, source_dir)
             IN  IF module_path.st = "err" THEN ERaise(module_path.err, store)
                 ELSE ECall([f EXCEPT !.pc = "loaded"],
                            EnsureLoaded(module_path.path, root, f.d + 1), store)
    ELSE LET requested ==
                 IF Len(args) = 1 THEN
                     [st |-> "ok", pairs |-> [i \in DOMAIN order |-> <<order[i], order[i]>>],
                      err |-> NoError]
                 ELSE parse_use_import_list(args[2])
         IN  IF requested.st = "err" THEN ERaise(requested.err, store)
             ELSE LET out == define_visible(requested.pairs, r.info, store, root, args[1].s)
                  IN  EResult(out.res, out.store)

\* a loader that never finds the cache entry
cache_miss(cache, path) == FALSE

\* a loader that does not look at the loading set
is_loading_unchecked(loading, path) == FALSE

\* a loader that leaves the loading mark where it is
clear_loading_skipped(loading, path) == loading

\* ensure_module_loaded: `cache.borrow().get(&module_path)` is Some
cache_hit(cache, path) == path \in DOMAIN cache

\* ensure_module_loaded: `loading.contains(&module_path)`
is_loading(loading, path) == path \in loading

\* ensure_module_loaded: `loading.borrow_mut().remove(&module_path)`
clear_loading(loading, path) == loading \ {path}

\* history: one more read / one more evaluation of the file at path
CountRead(hist, path) == [hist EXCEPT ![path].read = @ + 1]
CountEval(hist, path) == [hist EXCEPT ![path].eval = @ + 1]

\* ensure_module_loaded: its effect on the stack and the store (eff), on the
\* loading set, the cache and the root's source dir, and on the history
ensure_module_loaded(f, r, store, fs, source_dir, cache, loading, hist) ==
    LET out(eff, l, c, d, h) ==
            [eff |-> eff, loading |-> l, cache |-> c, dir |-> d, loads |-> h]
        module_path == canonicalize(fs, f.path)
        path == module_path.path
        \* the closure returned res without evaluating any form
        early(res, h) ==
            out(EResult(res, store), clear_loading(loading \cup {path}, path),
                IF res.st = "ok" THEN (path :> res.info) @@ cache ELSE cache, source_dir, h)
        exports == collect_module_exports(fs[path].forms)
        mangle_map == [orig \in exports.names |-> mangled_name(module_key_hash(path), orig)]
        rewritten == [i \in DOMAIN fs[path].forms |->
                         rewrite_module_form(fs[path].forms[i], mangle_map, FALSE)]
    IN
    IF f.pc = "entry" THEN
        IF ~module_path.some THEN
            out(ERaise(Use("ResolveFailed", display(f.path)), store),
                loading, cache, source_dir, hist)
        ELSE IF cache_hit(cache, path) THEN
            out(EResult(OkInfo(cache[path]), store), loading, cache, source_dir, hist)
        ELSE IF is_loading(loading, path) THEN
            out(ERaise(Use("CyclicUse", display(path)), store),
                loading, cache, source_dir, hist)
        ELSE IF fs[path].st = "unreadable" THEN
            early(Err(Use("ReadFailed", display(path))), CountRead(hist, path))
        ELSE IF fs[path].st = "badsyntax" THEN
            early(Err(ParseError), CountRead(hist, path))
        ELSE IF exports.st = "err" THEN
            early(Err(exports.err), CountRead(hist, path))
        ELSE IF rewritten = <<>> THEN
            early(OkInfo(ModuleInfo(exports.names, mangle_map)),
                  CountEval(CountRead(hist, path), path))
        ELSE out(ECall([f EXCEPT !.pc = "forms", !.path = path, !.xs = Tail(rewritten),
                                 !.prev = source_dir,
                                 !.info = ModuleInfo(exports.names, mangle_map)],
                       EvalValue(Head(rewritten), f.e, f.d + 1), store),
                 loading \cup {path}, cache, SomeDir(parent(path)),
                 CountEval(CountRead(hist, path), path))
    ELSE IF r.st = "err" THEN
        out(EResult(r, store), clear_loading(loading, f.path), cache, source_dir, hist)
    ELSE IF IsRecur(r.v) THEN
        out(ERaise(recur_tail_position_error, store), clear_loading(loading, f.path),
            cache, source_dir, hist)
    ELSE IF f.xs # <<>> THEN
        out(ECall([f EXCEPT !.xs = Tail(f.xs)], EvalValue(Head(f.xs), f.e, f.d + 1), store),
            loading, cache, source_dir, hist)
    ELSE out(EResult(OkInfo(f.info), store), clear_loading(loading, f.path),
             (f.path :> f.info) @@ cache, f.prev, hist)

----------------------------------------------------------------------------
(* vedn: the reader.  A text is a sequence of one-character strings, an    *)
(* index counts the characters before it (Cursor::index).  The texts read  *)
(* here hold no string, character or keyword literal and no backtick; the  *)
(* branches of the reader for those are left out.                          *)

EOF == "eof"

\* Cursor::peek, Cursor::peek_next
peek(text, i) == IF i < Len(text) THEN text[i + 1] ELSE EOF

\* Span::new, Cursor::span_from
Span(start, end) == [start |-> start, end |-> end]

NoNode == [kind |-> "none"]

\* Node::new: raw is the token of a leaf, items the children of a collection
\* (the keys and values of a map in turn)
Node(span, kind, raw, items) ==
    [span |-> span, kind |-> kind, raw |-> raw, items |-> items, annotation |-> NoNode]

\* Result<Option<Node>, Error> with the cursor's index after the call
POk(node, i) == [st |-> "ok", node |-> node, i |-> i]
PErr(kind, start, end) == [st |-> "err", kind |-> kind, span |-> Span(start, end)]

Whitespace == {" ", "\t", "\r", "\n", ","}

\* Cursor::skip_ws
RECURSIVE skip_ws(_, _)
skip_ws(text, i) == IF peek(text, i) \in Whitespace THEN skip_ws(text, i + 1) ELSE i

\* the inner loop of skip_ws_and_comments: bump up to and over the newline
RECURSIVE skip_line(_, _)
skip_line(text, i) ==
    IF i >= Len(text) THEN i
    ELSE IF text[i + 1] = "\n" THEN i + 1
    ELSE skip_line(text, i + 1)

\* Cursor::skip_ws_and_comments
RECURSIVE skip_ws_and_comments(_, _)
skip_ws_and_comments(text, i) ==
    LET j == skip_ws(text, i)
    IN  IF peek(text, j) = ";" THEN skip_ws_and_comments(text, skip_line(text, j)) ELSE j

\* is_delim_or_ws
is_delim_or_ws(b) == b \in Whitespace \cup {"(", ")", "[", "]", "{", "}", "\"", ";"}

\* take_symbolish_token: the index at which the token ends
RECURSIVE take_symbolish_token(_, _)
take_symbolish_token(text, i) ==
    IF i >= Len(text) \/ is_delim_or_ws(text[i + 1]) THEN i
    ELSE take_symbolish_token(text, i + 1)

Digits == {"0", "1", "2", "3", "4", "5", "6", "7", "8", "9"}

Letters ==
    {"a", "b", "c", "d", "e", "f", "g", "h", "i", "j", "k", "l", "m", "n", "o", "p", "q",
     "r", "s", "t", "u", "v", "w", "x", "y", "z",
     "A", "B", "C", "D", "E", "F", "G", "H", "I", "J", "K", "L", "M", "N", "O", "P", "Q",
     "R", "S", "T", "U", "V", "W", "X", "Y", "Z"}

\* is_symbol_char
is_symbol_char(ch) ==
    ch \in Digits \cup Letters
        \cup {".", "*", "+", "!", "-", "_", "?", "$", "%", "&", "=", "<", ">", ":", "#"}

\* validate_symbol_component: TRUE for Ok(())
validate_symbol_component(s) ==
    /\ s # <<>>
    /\ s[1] \notin Digits
    /\ (s[1] \in {"-", "+", "."} /\ Len(s) > 1) => s[2] \notin Digits
    /\ \A i \in DOMAIN s : is_symbol_char(s[i])

\* analyze_symbol_token: TRUE for Ok(_); at most one / parts a namespace
\* from the name
analyze_symbol_token(token) ==
    LET seps == {i \in DOMAIN token : token[i] = "/"}
        sep == CHOOSE i \in seps : TRUE
    IN  IF token = <<>> THEN FALSE
        ELSE IF token = <<"/">> THEN TRUE
        ELSE IF token[1] = ":" THEN FALSE
        ELSE IF Cardinality(seps) > 1 THEN FALSE
        ELSE IF seps = {} THEN validate_symbol_component(token)
        ELSE /\ validate_symbol_component(SubSeq(token, sep + 1, Len(token)))
             /\ validate_symbol_component(SubSeq(token, 1, sep - 1))

AllDigits(s) == \A i \in DOMAIN s : s[i] \in Digits

strip_prefix(s, ch) == IF s # <<>> /\ s[1] = ch THEN Tail(s) ELSE s

\* is_int
is_int(s) ==
    LET rest == strip_prefix(strip_prefix(s, "+"), "-")
    IN  /\ rest # <<>>
        /\ ~(Len(rest) > 1 /\ rest[1] = "0")
        /\ AllDigits(rest)

\* is_float with split_exp
is_float(s) ==
    LET es == {i \in DOMAIN s : s[i] \in {"e", "E"}}
        at == CHOOSE i \in es : \A j \in es : i <= j
        mantissa == IF es = {} THEN s ELSE SubSeq(s, 1, at - 1)
        exp == IF es = {} THEN <<>> ELSE SubSeq(s, at + 1, Len(s))
        digits == IF exp # <<>> /\ exp[1] \in {"+", "-"} THEN Tail(exp) ELSE exp
        dots == {i \in DOMAIN mantissa : mantissa[i] = "."}
        dot == CHOOSE i \in dots : \A j \in dots : i <= j
    IN  /\ es # {} => (digits # <<>> /\ AllDigits(digits))
        /\ IF dots # {}
           THEN /\ dot > 1
                /\ dot < Len(mantissa)
                /\ is_int(SubSeq(mantissa, 1, dot - 1))
                /\ AllDigits(SubSeq(mantissa, dot + 1, Len(mantissa)))
           ELSE es # {} /\ is_int(mantissa)

\* parse_number: "Int", "Float" or "" for Err(InvalidNumber)
parse_number(token) ==
    LET core == IF token # <<>> /\ token[Len(token)] \in {"N", "M"}
                THEN SubSeq(token, 1, Len(token) - 1) ELSE token
    IN  IF core = <<>> THEN ""
        ELSE IF is_int(core) THEN "Int"
        ELSE IF is_float(core) THEN "Float"
        ELSE ""

\* parse_token
parse_token(text, i) ==
    LET end == take_symbolish_token(text, i)
        token == SubSeq(text, i + 1, end)
        span == Span(i, end)
    IN  IF token = <<"n", "i", "l">> THEN POk(Node(span, "Nil", token, <<>>), end)
        ELSE IF token \in {<<"t", "r", "u", "e">>, <<"f", "a", "l", "s", "e">>}
        THEN POk(Node(span, "Bool", token, <<>>), end)
        ELSE IF parse_number(token) # ""
        THEN POk(Node(span, parse_number(token), token, <<>>), end)
        ELSE IF analyze_symbol_token(token) THEN POk(Node(span, "Symbol", token, <<>>), end)
        ELSE PErr("InvalidSymbol", i, end)

\* parse_dispatch, parser.rs:289-298: the annotation is attached to the form
attach_annotation(form, annotation) ==
    [form EXCEPT !.annotation =
        IF form.annotation = NoNode THEN annotation
        ELSE LET prev == form.annotation
             IN  Node(Span(prev.span.start, annotation.span.end), "List", <<>>,
                      <<prev, annotation>>)]

Closer(kind) == CASE kind = "List" -> ")" [] kind = "Vector" -> "]" [] OTHER -> "}"

RECURSIVE parse_form(_, _), parse_form_no_skip(_, _), parse_items(_, _, _, _, _),
          parse_dispatch(_, _)

\* parse_form
parse_form(text, i) ==
    LET j == skip_ws_and_comments(text, i)
    IN  IF peek(text, j) = EOF THEN PErr("UnexpectedEof", j, j)
        ELSE parse_form_no_skip(text, j)

\* the loop of parse_list, parse_vector, parse_map and parse_set after it
\* has read the form v
push_item(text, start, kind, values, v) ==
    IF v.st = "err" THEN v
    ELSE parse_items(text, start, v.i, kind,
                     IF v.node = NoNode THEN values ELSE Append(values, v.node))

\* the loop of parse_list, parse_vector, parse_map and parse_set
parse_items(text, start, i, kind, values) ==
    LET j == skip_ws_and_comments(text, i)
        b == peek(text, j)
    IN  IF b = Closer(kind) THEN [st |-> "ok", values |-> values, i |-> j + 1]
        ELSE IF b = EOF THEN PErr("UnterminatedCollection", start, j)
        ELSE push_item(text, start, kind, values, parse_form(text, j))

\* the end of parse_list, parse_vector and parse_set, and that of parse_map
close_collection(i, kind, body) ==
    IF body.st = "err" THEN body
    ELSE IF kind = "Map" /\ Len(body.values) % 2 # 0
    THEN PErr("MapOddNumberOfForms", body.values[Len(body.values)].span.start, body.i)
    ELSE POk(Node(Span(i, body.i), kind, <<>>, body.values), body.i)

\* parse_list, parse_vector, parse_map, parse_set
parse_collection(text, i, kind) ==
    close_collection(i, kind,
                     parse_items(text, i, i + (IF kind = "Set" THEN 2 ELSE 1), kind, <<>>))

\* parse_dispatch, `## <form>`: the form read is discarded
discard(discarded) ==
    IF discarded.st = "err" THEN discarded ELSE POk(NoNode, discarded.i)

\* parse_dispatch, `#<form> <form>`, after it has read the form
annotate(i, annotation, form) ==
    IF form.st = "err" THEN form
    ELSE IF form.node = NoNode THEN PErr("UnexpectedEof", form.i, form.i)
    ELSE POk(attach_annotation([form.node EXCEPT !.span = Span(i, form.i)],
                               annotation.node), form.i)

\* parse_dispatch, `#<form> <form>`, after it has read the annotation
annotated(text, i, annotation) ==
    IF annotation.st = "err" THEN annotation
    ELSE IF annotation.node = NoNode
    THEN PErr("UnexpectedEof", annotation.i, annotation.i)
    ELSE IF skip_ws_and_comments(text, annotation.i) >= Len(text)
    THEN PErr("UnexpectedEof", skip_ws_and_comments(text, annotation.i),
              skip_ws_and_comments(text, annotation.i))
    ELSE annotate(i, annotation, parse_form(text, skip_ws_and_comments(text, annotation.i)))

\* parse_dispatch
parse_dispatch(text, i) ==
    LET b == peek(text, i + 1)
    IN  IF b = "#" THEN discard(parse_form(text, skip_ws_and_comments(text, i + 2)))
        ELSE IF b \in {"_", " ", "\t", "\r", "\n", ",", ";", EOF}
        THEN PErr("InvalidDispatch", i + 1, i + 1)
        ELSE annotated(text, i, parse_form_no_skip(text, i + 1))

\* the collection that the character b opens, "" if it opens none
Opens(b, next) ==
    CASE b = "(" -> "List"
      [] b = "[" -> "Vector"
      [] b = "{" -> "Map"
      [] b = "%" /\ next = "{" -> "Set"
      [] OTHER -> ""

\* parse_form_no_skip
parse_form_no_skip(text, i) ==
    LET kind == Opens(peek(text, i), peek(text, i + 1))
    IN  IF kind # "" THEN parse_collection(text, i, kind)
        ELSE IF peek(text, i) = "#" THEN parse_dispatch(text, i)
        ELSE parse_token(text, i)

\* parse_all after it has read the form r
push_node(nodes, r) == IF r.node = NoNode THEN nodes ELSE Append(nodes, r.node)

\* Parser::parse_all
RECURSIVE parse_all(_, _, _), parse_rest(_, _, _)
parse_rest(text, nodes, r) ==
    IF r.st = "err" THEN r ELSE parse_all(text, r.i, push_node(nodes, r))

parse_all(text, i, nodes) ==
    IF skip_ws_and_comments(text, i) >= Len(text) THEN [st |-> "ok", nodes |-> nodes]
    ELSE parse_rest(text, nodes, parse_form(text, skip_ws_and_comments(text, i)))

\* vedn::parse
parse(text) == parse_all(text, 0, <<>>)

NoRead == [st |-> "none"]

----------------------------------------------------------------------------
(* core.rs: node_to_form *)

\* The names the programs are written with (a, b, x, the special-form heads
\* and the names of the built-in table), and their characters.
Spelling ==
    ("a" :> <<"a">>) @@ ("b" :> <<"b">>) @@ ("x" :> <<"x">>) @@
    ("def" :> <<"d", "e", "f">>) @@ ("defn" :> <<"d", "e", "f", "n">>) @@
    ("fn" :> <<"f", "n">>) @@ ("if" :> <<"i", "f">>) @@ ("do" :> <<"d", "o">>) @@
    ("let" :> <<"l", "e", "t">>) @@ ("quote" :> <<"q", "u", "o", "t", "e">>) @@
    ("defmacro" :> <<"d", "e", "f", "m", "a", "c", "r", "o">>) @@
    ("deftype" :> <<"d", "e", "f", "t", "y", "p", "e">>) @@ ("use" :> <<"u", "s", "e">>) @@
    ("|>" :> <<"|", ">">>) @@ ("recur" :> <<"r", "e", "c", "u", "r">>) @@
    ("loop" :> <<"l", "o", "o", "p">>) @@ ("+" :> <<"+">>) @@ ("-" :> <<"-">>) @@
    ("*" :> <<"*">>) @@ ("/" :> <<"/">>) @@ ("//" :> <<"/", "/">>) @@ ("^" :> <<"^">>) @@
    ("mod" :> <<"m", "o", "d">>) @@ ("brt" :> <<"b", "r", "t">>) @@
    ("max" :> <<"m", "a", "x">>) @@ ("min" :> <<"m", "i", "n">>) @@ (">" :> <<">">>) @@
    ("<" :> <<"<">>) @@ (">=" :> <<">", "=">>) @@ ("<=" :> <<"<", "=">>) @@
    ("==" :> <<"=", "=">>) @@ ("!=" :> <<"!", "=">>) @@ ("&" :> <<"&">>) @@
    ("|" :> <<"|">>) @@ ("readln" :> <<"r", "e", "a", "d", "l", "n">>) @@
    ("format" :> <<"f", "o", "r", "m", "a", "t">>) @@
    ("print" :> <<"p", "r", "i", "n", "t">>) @@
    ("println" :> <<"p", "r", "i", "n", "t", "l", "n">>) @@
    ("parse-int" :> <<"p", "a", "r", "s", "e", "-", "i", "n", "t">>) @@
    ("parse-float" :> <<"p", "a", "r", "s", "e", "-", "f", "l", "o", "a", "t">>) @@
    ("concat" :> <<"c", "o", "n", "c", "a", "t">>) @@
    ("append" :> <<"a", "p", "p", "e", "n", "d">>) @@
    ("prepend" :> <<"p", "r", "e", "p", "e", "n", "d">>) @@ ("nth" :> <<"n", "t", "h">>) @@
    ("map" :> <<"m", "a", "p">>) @@ ("reduce" :> <<"r", "e", "d", "u", "c", "e">>) @@
    ("scan" :> <<"s", "c", "a", "n">>) @@ ("assert" :> <<"a", "s", "s", "e", "r", "t">>)

\* s.raw.to_string()
to_string(raw) == CHOOSE name \in DOMAIN Spelling : Spelling[name] = raw

DigitValue(ch) ==
    CASE ch = "0" -> 0 [] ch = "1" -> 1 [] ch = "2" -> 2 [] ch = "3" -> 3 [] ch = "4" -> 4
      [] ch = "5" -> 5 [] ch = "6" -> 6 [] ch = "7" -> 7 [] ch = "8" -> 8 [] ch = "9" -> 9

RECURSIVE Decimal(_, _)
Decimal(acc, digits) ==
    IF digits = <<>> THEN acc ELSE Decimal(10 * acc + DigitValue(Head(digits)), Tail(digits))

\* lexeme.parse::<i64>(): [some |-> FALSE] for Err(_)
parse_i64(lexeme) ==
    LET neg == lexeme # <<>> /\ lexeme[1] = "-"
        digits == IF lexeme # <<>> /\ lexeme[1] \in {"+", "-"} THEN Tail(lexeme) ELSE lexeme
        n == IF neg THEN -Decimal(0, digits) ELSE Decimal(0, digits)
    IN  IF digits = <<>> \/ ~AllDigits(digits) \/ n < I64_MIN \/ n > I64_MAX
        THEN [some |-> FALSE, n |-> 0]
        ELSE [some |-> TRUE, n |-> n]

\* number_to_value for Number::Int
number_to_value(lexeme) ==
    IF parse_i64(lexeme).some THEN IntV(parse_i64(lexeme).n) ELSE IntV(0)

\* node_to_form of a set literal and of a map literal, whose items and
\* entries the reader gives in source order: they are collected into a
\* HashSet and a HashMap
SetLiteral(items) == Set({items[i] : i \in DOMAIN items})
MapLiteral(entries) == Map({Entry(entries[i][1], entries[i][2]) : i \in DOMAIN entries})

RECURSIVE node_to_form(_)
node_to_form(node) ==
    LET forms == [i \in DOMAIN node.items |-> node_to_form(node.items[i])]
    IN  CASE node.kind = "Nil" -> Nil
          [] node.kind = "Bool" -> Bool(node.raw = <<"t", "r", "u", "e">>)
          [] node.kind = "Symbol" -> Symbol(to_string(node.raw))
          [] node.kind = "Int" -> number_to_value(node.raw)
          [] node.kind = "List" -> List(forms)
          [] node.kind = "Vector" -> Vector(forms)
          [] node.kind = "Set" -> SetLiteral(forms)
          [] node.kind = "Map" ->
                MapLiteral([i \in 1..(Len(forms) \div 2) |-> <<forms[2 * i - 1], forms[2 * i]>>])

----------------------------------------------------------------------------
(* The actions: one per Rust function.  The function whose frame is on top *)
(* of the stack takes its next step.                                       *)

Running(fn) == stack # <<>> /\ Top.fn = fn

\* what a step that touches only the stack and the Envs leaves alone
rest == <<sourceDir, moduleCache, moduleLoading, files, inputs, last, done, peak,
          loads, edits>>

\* history: the depth of a guarded function that has got past its guard
Peak(f) == IF f.pc = "entry" /\ ~DepthGuard(f.d) THEN Max(peak, f.d) ELSE peak

\* eval / eval_value without the check of core.rs:30-34 and 40-44
eval_result_unchecked(out) == out

\* eval / eval_value: a Recur that reaches the public entry point is an error
eval_result(out) ==
    IF out.st = "ok" /\ IsRecur(out.v)
    THEN Err(Custom("recur must be inside a function body or loop"))
    ELSE out

\* read: what vedn::parse made of the text the form comes from, todo: the
\* forms of that text still to be evaluated
NoLast == [form |-> Nil, res |-> NoRet, before |-> {}, read |-> NoRead, todo |-> <<>>]

\* an input that is a program text, to be read before it is evaluated
Text(src) == [k |-> "text", src |-> src]

\* main.rs:40-53, 112-134: the text is parsed whole, then its forms are
\* evaluated in turn until one fails
ReadResult(src, read) ==
    IF read.st = "err"
    THEN [st |-> "err", kind |-> read.kind, span |-> read.span, src |-> src, nodes |-> <<>>]
    ELSE [st |-> "ok", kind |-> "", span |-> Span(0, 0), src |-> src, nodes |-> read.nodes]

Read(src) == ReadResult(src, parse(src))

\* core.rs eval, called for one top-level form after the other on the same root
\* Env (main.rs run_repl, tests.rs eval_snippet): the call, and its return.  A
\* panic ends the host, and with it the session.
EvalForm(form, read, todo) ==
    /\ stack' = <<EvalCall(form), EvalValue(form, RootId, 0)>>
    /\ last' = [form |-> form, res |-> NoRet, before |-> DOMAIN envs[RootId].b,
                read |-> read, todo |-> todo]

\* the forms that node_to_form makes of the nodes read
Forms(nodes) == [i \in DOMAIN nodes |-> node_to_form(nodes[i])]

EvalText(read, forms) ==
    IF forms = <<>> THEN
        /\ stack' = <<>>
        /\ last' = [form |-> Nil, res |-> NoRet, before |-> DOMAIN envs[RootId].b,
                    read |-> read, todo |-> <<>>]
    ELSE EvalForm(forms[1], read, Tail(forms))

EvalRead(read) == EvalText(read, Forms(read.nodes))

Eval ==
    IF stack = <<>> THEN
        /\ IF last.todo # <<>> THEN
              /\ EvalForm(Head(last.todo), last.read, Tail(last.todo))
              /\ UNCHANGED inputs
           ELSE
              /\ inputs # <<>>
              /\ inputs' = Tail(inputs)
              /\ \E input \in Head(inputs) :
                    IF input.k = "text" THEN EvalRead(Read(input.src))
                    ELSE EvalForm(input, NoRead, <<>>)
        /\ ret' = NoRet
        /\ UNCHANGED <<envs, sourceDir, moduleCache, moduleLoading, files, done, peak,
                       loads, edits>>
    ELSE
        /\ Top.fn = "eval"
        /\ last' = [last EXCEPT !.res = eval_result(ret),
                                !.todo = IF eval_result(ret).st = "ok" THEN @ ELSE <<>>]
        /\ done' = done + 1
        /\ stack' = <<>>
        /\ ret' = NoRet
        /\ envs' = Drop(envs, EnvRefs(eval_result(ret).v))
        /\ inputs' = IF ret.st = "panic" THEN <<>> ELSE inputs
        /\ UNCHANGED <<sourceDir, moduleCache, moduleLoading, files, peak, loads, edits>>

EvalValueImpl ==
    /\ Running("eval_value_impl")
    /\ \E pick \in (IF Pending(Top) = {} THEN {Nil} ELSE Pending(Top)) :
          Do(eval_value_impl(Top, ret, envs, pick))
    /\ peak' = Peak(Top)
    /\ UNCHANGED <<sourceDir, moduleCache, moduleLoading, files, inputs, last, done,
                   loads, edits>>

EvalListImpl ==
    /\ Running("eval_list_impl")
    /\ Do(eval_list_impl(Top, ret, envs))
    /\ UNCHANGED rest

ApplyImpl ==
    /\ Running("apply_impl")
    /\ Top.v.k = "builtin" => Top.v.s \in PureBuiltins \cup HigherOrder
    /\ \E overflow_checks \in BOOLEAN :
          Do(Built(apply_impl(Top, ret, envs, Roots(stack, ret)), overflow_checks))
    /\ peak' = Peak(Top)
    /\ UNCHANGED <<sourceDir, moduleCache, moduleLoading, files, inputs, last, done,
                   loads, edits>>

\* the calls of map, reduce and scan that are on the stack
Passes == Cardinality({i \in DOMAIN stack : stack[i].fn \in {"builtin_" \o name : name \in HigherOrder}})

BuiltinMap ==
    /\ Running("builtin_map")
    /\ Passes <= MaxPasses
    /\ Do(builtin_map(Top, ret, envs))
    /\ UNCHANGED rest

BuiltinReduce ==
    /\ Running("builtin_reduce")
    /\ Passes <= MaxPasses
    /\ Do(builtin_reduce(Top, ret, envs))
    /\ UNCHANGED rest

BuiltinScan ==
    /\ Running("builtin_scan")
    /\ Passes <= MaxPasses
    /\ Do(builtin_scan(Top, ret, envs))
    /\ UNCHANGED rest

ApplyMacro ==
    /\ Running("apply_macro")
    /\ Do(apply_macro(Top, ret, envs))
    /\ UNCHANGED rest

EvalDoFormsImpl ==
    /\ Running("eval_do_forms_impl")
    /\ Do(eval_do_forms_impl(Top, ret, envs))
    /\ UNCHANGED rest

SpecialDef ==
    /\ Running("special_def")
    /\ Do(special_def(Top, ret, envs))
    /\ UNCHANGED rest

SpecialDefn ==
    /\ Running("special_defn")
    /\ Do(special_defn(Top, ret, envs))
    /\ UNCHANGED rest

SpecialFn ==
    /\ Running("special_fn")
    /\ Do(EResult(special_fn(Top.xs, Top.e), envs))
    /\ UNCHANGED rest

SpecialDefmacro ==
    /\ Running("special_defmacro")
    /\ Do(special_defmacro(Top, ret, envs))
    /\ UNCHANGED rest

SpecialIf ==
    /\ Running("special_if")
    /\ Do(special_if(Top, ret, envs))
    /\ UNCHANGED rest

SpecialDo ==
    /\ Running("special_do")
    /\ Do(special_do(Top, ret, envs))
    /\ UNCHANGED rest

SpecialLet ==
    /\ Running("special_let")
    /\ Do(special_let(Top, ret, envs))
    /\ UNCHANGED rest

SpecialQuote ==
    /\ Running("special_quote")
    /\ Do(special_quote(Top, ret, envs))
    /\ UNCHANGED rest

SpecialPipe ==
    /\ Running("special_pipe")
    /\ Do(special_pipe(Top, ret, envs))
    /\ UNCHANGED rest

SpecialRecur ==
    /\ Running("special_recur")
    /\ Do(special_recur(Top, ret, envs))
    /\ UNCHANGED rest

SpecialLoop ==
    /\ Running("special_loop")
    /\ Do(special_loop(Top, ret, envs, Roots(stack, ret)))
    /\ UNCHANGED rest

SpecialUse ==
    /\ Running("special_use")
    /\ \E order \in (IF Top.pc = "loaded" /\ Len(Top.xs) = 1
                     THEN Orders(ret.info.exports) ELSE {<<>>}) :
          Do(special_use(Top, ret, envs, sourceDir, order))
    /\ UNCHANGED rest

EnsureModuleLoaded ==
    /\ Running("ensure_module_loaded")
    /\ LET out == ensure_module_loaded(Top, ret, envs, files, sourceDir, moduleCache,
                                       moduleLoading, loads)
       IN  /\ Do(out.eff)
           /\ moduleLoading' = out.loading
           /\ moduleCache' = out.cache
           /\ sourceDir' = out.dir
           /\ loads' = out.loads
    /\ UNCHANGED <<files, inputs, last, done, peak, edits>>

----------------------------------------------------------------------------
(* The programs and module files that are run.  Forms are written as       *)
(* node_to_form lowers them.                                               *)

S(name) == Symbol(name)
L(items) == List(items)
Fn(params, body) == L(<<S("fn"), Vector(params)>> \o body)
Call0(body) == L(<<Fn(<<>>, body)>>)
UseForm(module) == L(<<S("use"), S(module)>>)
UseList(module, entries) == L(<<S("use"), S(module), Vector(entries)>>)

\* (if (< n 1) 0 (again (- n 1))): the body of the programs of tests.rs:85-133
CountDown(again) ==
    L(<<S("if"), L(<<S("<"), S("n"), IntV(1)>>), IntV(0),
        L(<<S(again), L(<<S("-"), S("n"), IntV(1)>>)>>)>>)

\* tests.rs:88-93
DefnDown == L(<<S("defn"), S("down"), Vector(<<S("n")>>), CountDown("recur")>>)
CallDown(n) == L(<<S("down"), IntV(n)>>)
\* tests.rs:104-108
LoopDown(n) == L(<<S("loop"), Vector(<<S("n"), IntV(n)>>), CountDown("recur")>>)
\* tests.rs:119-125
DefnBad == L(<<S("defn"), S("bad"), Vector(<<S("n")>>), CountDown("bad")>>)
CallBad(n) == L(<<S("bad"), IntV(n)>>)
\* the least lambda that calls itself without recur
DefnNest == L(<<S("defn"), S("nest"), Vector(<<>>), L(<<S("nest")>>)>>)
CallNest == L(<<S("nest")>>)

RecurForm == L(<<S("recur")>>)

\* a recur whose result is consumed as an intermediate result, one form per place
NonTailBodies ==
    {<<Vector(<<RecurForm>>)>>,
     <<Set({RecurForm})>>,
     <<Map({Entry(Keyword("k"), RecurForm)})>>,
     <<Map({Entry(RecurForm, IntV(1))})>>,
     <<L(<<S("do"), RecurForm, IntV(1)>>)>>,
     <<RecurForm, IntV(1)>>,
     <<L(<<S("+"), RecurForm, IntV(1)>>)>>,
     <<L(<<S("if"), RecurForm, IntV(1), IntV(2)>>)>>,
     <<L(<<S("def"), S("d"), RecurForm>>)>>,
     <<L(<<S("let"), Vector(<<S("a"), RecurForm>>), S("a")>>)>>,
     <<L(<<S("loop"), Vector(<<S("a"), RecurForm>>), S("a")>>)>>,
     <<L(<<S("|>"), RecurForm, S("+")>>)>>,
     <<L(<<S("|>"), IntV(1), S("+"), RecurForm>>)>>,
     <<L(<<S("recur"), RecurForm>>)>>}

\* the same bodies run as the body of a lambda and as the body of a loop
NonTailForms ==
    {Call0(body) : body \in NonTailBodies}
        \cup {L(<<S("loop"), Vector(<<>>)>> \o body) : body \in NonTailBodies}

\* recur in tail position (through let, do and if), with the right and the
\* wrong number of arguments, and at the top level
TailForms ==
    {L(<<Fn(<<S("n")>>,
            <<L(<<S("let"), Vector(<<S("m"), S("n")>>), L(<<S("do"), CountDown("recur")>>)>>)>>),
         IntV(2)>>),
     LoopDown(2),
     L(<<Fn(<<S("n")>>, <<RecurForm>>), IntV(1)>>),
     L(<<S("loop"), Vector(<<S("n"), IntV(1)>>), RecurForm>>),
     L(<<S("recur"), IntV(1)>>),
     L(<<S("do"), L(<<S("recur"), IntV(1)>>)>>),
     L(<<S("defmacro"), S("again"), Vector(<<>>), L(<<S("quote"), RecurForm>>)>>),
     L(<<S("again")>>),
     L(<<S("deftype"), S("t")>>)}

\* the module b of tests.rs:296-319, its macro named mac and the bindings of
\* the let it expands to written as bindings:
\* (def x 100) (defn id [n] n) (defmacro mac [] (quote (let bindings (id x))))
BinderModule(mac, bindings) ==
    File(<<L(<<S("def"), S("x"), IntV(100)>>),
           L(<<S("defn"), S("id"), Vector(<<S("n")>>), S("n")>>),
           L(<<S("defmacro"), S(mac), Vector(<<>>),
               L(<<S("quote"), L(<<S("let"), bindings, L(<<S("id"), S("x")>>)>>)>>)>>)>>)

\* the module files, after tests.rs:135-418
Files ==
    (<<"proj", "mod.vaca">> :>
        File(<<L(<<S("def"), S("x"), IntV(1)>>), L(<<S("def"), S("y"), IntV(2)>>)>>))
    @@ (<<"proj", "alias.vaca">> :> Link(<<"proj", "mod.vaca">>))
    @@ (<<"proj", "m.vaca">> :>
        File(<<L(<<S("defn"), S("helper"), Vector(<<S("n")>>), L(<<S("+"), S("n"), IntV(1)>>)>>),
               L(<<S("defmacro"), S("m"), Vector(<<>>),
                   L(<<S("quote"), L(<<S("helper"), IntV(10)>>)>>)>>)>>))
    @@ (<<"proj", "a.vaca">> :> File(<<UseForm("b")>>))
    @@ (<<"proj", "b.vaca">> :> File(<<UseForm("a")>>))
    @@ (<<"proj", "self.vaca">> :> File(<<UseForm("self")>>))
    @@ (<<"proj", "bad.vaca">> :> File(<<L(<<S("def"), S("z"), IntV(1)>>), S("nosuch")>>))
    @@ (<<"proj", "unread.vaca">> :> Unreadable)
    @@ (<<"proj", "syn.vaca">> :> BadSyntax)
    @@ (<<"proj", "inv.vaca">> :> File(<<L(<<S("def"), IntV(5), IntV(1)>>)>>))
    @@ (<<"proj", "rec.vaca">> :> File(<<L(<<S("recur"), IntV(1)>>)>>))
    @@ (<<"proj", "lib", "outer.vaca">> :>
        File(<<UseForm("inner"), L(<<S("def"), S("w"), S("v")>>)>>))
    @@ (<<"proj", "lib", "inner.vaca">> :> File(<<L(<<S("def"), S("v"), IntV(4)>>)>>))
    @@ (<<"proj", "lib", "broken.vaca">> :> File(<<UseForm("nofile")>>))
    @@ (<<"proj", "tuck.vaca">> :>
        File(<<L(<<S("do"), L(<<S("def"), S("hidden"), IntV(1)>>)>>)>>))
    @@ (<<"proj", "q.vaca">> :>
        File(<<L(<<S("def"), S("x"), IntV(1)>>),
               L(<<S("def"), S("sym"), L(<<S("quote"), S("x")>>)>>),
               L(<<S("defn"), S("getq"), Vector(<<>>), L(<<S("quote"), S("x")>>)>>),
               L(<<S("def"), S("top"), IntV(0)>>),
               L(<<S("quote"), S("top")>>)>>))
    @@ (<<"proj", "bind.vaca">> :> BinderModule("mb", Map({Entry(S("x"), IntV(1))})))
    @@ (<<"proj", "bindv.vaca">> :> BinderModule("mv", Vector(<<S("x"), IntV(1)>>)))

\* the use forms and the forms around them
ModuleForms ==
    {UseForm("mod"),
     UseList("mod", <<S("x"), Keyword("as"), S("x2")>>),
     UseList("alias", <<S("y")>>),
     UseList("mod", <<S("y"), S("nope")>>),
     UseList("m", <<S("m")>>),
     L(<<S("m")>>),
     UseForm("a"), UseForm("self"), UseForm("bad"), UseForm("unread"), UseForm("syn"),
     UseForm("inv"), UseForm("rec"), UseForm("lib.outer"), UseForm("lib.broken"), UseForm("tuck"),
     UseForm("nofile"),
     UseList("mod", <<S("x"), Keyword("as"), S("+")>>),
     UseList("mod", <<S("nope"), Keyword("as"), S("+")>>),
     L(<<S("def"), S("x"), IntV(5)>>),
     S("x"), S("x2"), S("y")}

\* what an edit may write to a module file
Edits ==
    {[path |-> <<"proj", "mod.vaca">>, to |-> File(<<L(<<S("def"), S("x"), IntV(2)>>)>>)],
     [path |-> <<"proj", "bad.vaca">>, to |-> File(<<L(<<S("def"), S("z"), IntV(1)>>)>>)]}

\* the file system changes under the program: a module file is rewritten
EditFile ==
    /\ edits < MaxEdits
    /\ stack = <<>>
    /\ \E ed \in Edits :
          /\ ed.path \in DOMAIN files
          /\ files' = [files EXCEPT ![ed.path] = ed.to]
    /\ edits' = edits + 1
    /\ UNCHANGED <<envs, sourceDir, moduleCache, moduleLoading, stack, ret, inputs, last,
                   done, peak, loads>>

----------------------------------------------------------------------------
(* The specifications *)

\* Env::new, register_builtins, set_source_dir (tests.rs:43-48), and nothing run,
\* in a directory that holds the files fs
Start(fs) ==
    /\ envs = (RootId :> [b |-> register_builtins, p |-> NoParent])
    /\ moduleCache = <<>>
    /\ moduleLoading = {}
    /\ files = fs
    /\ stack = <<>>
    /\ ret = NoRet
    /\ last = NoLast
    /\ done = 0
    /\ peak = 0
    /\ loads = [path \in {q \in DOMAIN fs : fs[q].st # "link"} |-> [read |-> 0, eval |-> 0]]
    /\ edits = 0

\* a session of MaxInputs forms about modules, each any of ModuleForms
ModuleSession == [i \in 1..MaxInputs |-> ModuleForms]

\* a form with recur, run after a form that may have defined the macro again
RecurSession == <<TailForms, NonTailForms \cup TailForms>>

\* the import of a macro whose expansion binds an exported name, and its call
\* (tests.rs:296-319)
BinderSession ==
    <<{UseList("bind", <<S("mb")>>), UseList("bindv", <<S("mv")>>)},
      {L(<<S("mb")>>), L(<<S("mv")>>)}>>

\* the import of definitions whose value is a quoted export, and their use
\* (tests.rs:272-294)
QuoteSession ==
    <<{UseList("q", <<S("sym"), S("getq")>>)}, {S("sym"), L(<<S("getq")>>)}>>

\* def, defn and defmacro evaluated in a function body, a let, a loop and a
\* macro body, under a local binding of the same name or of another
DefInFn == L(<<Fn(<<S("a")>>, <<L(<<S("def"), S("g"), S("a")>>), S("g")>>), IntV(7)>>)
DefInLet == L(<<S("let"), Vector(<<S("a"), IntV(1)>>), L(<<S("def"), S("a"), IntV(2)>>), S("a")>>)
DefnInLoop ==
    L(<<S("loop"), Vector(<<S("i"), IntV(0)>>),
        L(<<S("defn"), S("h"), Vector(<<>>), S("i")>>), L(<<S("h")>>)>>)
DefInMacro ==
    L(<<S("defmacro"), S("md"), Vector(<<S("p")>>),
        L(<<S("def"), S("p"), IntV(3)>>), L(<<S("quote"), S("p")>>)>>)
DefmacroInLet ==
    L(<<S("let"), Vector(<<S("pi"), IntV(1)>>),
        L(<<S("defmacro"), S("pi"), Vector(<<>>), IntV(9)>>), S("pi")>>)
ScopeForms == {DefInFn, DefInLet, DefnInLoop, DefInMacro, DefmacroInLet}

\* one of them, then one of them again, a use of what the first defined, or
\* a call of the macro
ScopeSession ==
    <<ScopeForms,
      ScopeForms \cup {S("g"), S("a"), L(<<S("h")>>), L(<<S("md"), IntV(0)>>), S("p"),
                       L(<<S("pi")>>)}>>


\* literals and a call whose sub-forms define o, first as 1 and then as 2,
\* and literals whose sub-forms are unbound symbols, first u1 and then u2
DefO(n) == L(<<S("def"), S("o"), IntV(n)>>)
OrderSources == [defs |-> <<DefO(1), DefO(2)>>, unbound |-> <<S("u1"), S("u2")>>]
OrderedForms ==
    {Vector(OrderSources.defs), Vector(OrderSources.unbound),
     L(<<S("+")>> \o OrderSources.defs), L(OrderSources.unbound)}
UnorderedForms ==
    {SetLiteral(OrderSources.defs), SetLiteral(OrderSources.unbound),
     MapLiteral(<<<<DefO(1), IntV(0)>>, <<DefO(2), IntV(0)>>>>),
     MapLiteral(<<<<Keyword("j"), DefO(1)>>, <<Keyword("k"), DefO(2)>>>>),
     MapLiteral(<<<<DefO(1), DefO(2)>>>>),
     MapLiteral(<<<<S("u1"), IntV(0)>>, <<S("u2"), IntV(0)>>>>)}

\* one literal or call with side effects in its sub-forms
OrderSession == <<OrderedForms \cup UnorderedForms>>

\* (let {x 10 y 32} (+ x y)) of tests.rs:79-83, and the same let with its
\* bindings written as a vector
LetMap ==
    L(<<S("let"), MapLiteral(<<<<S("x"), IntV(10)>>, <<S("y"), IntV(32)>>>>),
        L(<<S("+"), S("x"), S("y")>>)>>)
LetVector ==
    L(<<S("let"), Vector(<<S("x"), IntV(10), S("y"), IntV(32)>>),
        L(<<S("+"), S("x"), S("y")>>)>>)
LetSession == <<{LetMap, LetVector}>>

\* pipelines given to eval_value as forms
Pipe(v, steps) == L(<<S("|>"), v>> \o steps)
PipeForms ==
    {Pipe(IntV(5), <<L(<<S("+"), IntV(1)>>), L(<<S("*"), IntV(2)>>)>>),
     Pipe(IntV(5), <<L(<<S("-"), IntV(1)>>), L(<<S("-"), IntV(10)>>)>>),
     Pipe(IntV(5), <<S("-")>>),
     Pipe(IntV(5), <<L(<<>>)>>),
     Pipe(IntV(5), <<>>),
     Pipe(S("u1"), <<S("u2")>>)}
PipeSession == <<PipeForms>>

\* a closure over the loop variable i made in the first iteration and called
\* in the second: (if (< i 1) (recur (+ i 1) (fn [] i)) (k)), in a loop and
\* in a lambda
CloseOver ==
    L(<<S("if"), L(<<S("<"), S("i"), IntV(1)>>),
        L(<<S("recur"), L(<<S("+"), S("i"), IntV(1)>>), Fn(<<>>, <<S("i")>>)>>),
        L(<<S("k")>>)>>)
LoopClosure == L(<<S("loop"), Vector(<<S("i"), IntV(0), S("k"), Nil>>), CloseOver>>)
DefnClosure == L(<<S("defn"), S("lp"), Vector(<<S("i"), S("k")>>), CloseOver>>)
CallClosure == L(<<S("lp"), IntV(0), Nil>>)
ClosureSession == <<{DefnClosure, LoopClosure}, {CallClosure}>>

\* (defn id [v] v), and pipelines that give id a quoted value: (|> (quote q) id)
DefnId == L(<<S("defn"), S("id"), Vector(<<S("v")>>), S("v")>>)
Quoted(q) == L(<<S("quote"), q>>)
PassValues ==
    {Nil, IntV(5), Str("a"), Vector(<<IntV(1)>>), L(<<>>),
     S("u1"), S("pi"), L(<<S("+"), IntV(1), IntV(2)>>), Vector(<<S("u1")>>)}
PassForms == {Pipe(Quoted(q), <<S("id")>>) : q \in PassValues}
PassSession == <<{DefnId}, PassForms>>

\* the program text (|> 5 (+ 1) (* 2)), and the same computation written
\* without the pipeline
PipeText ==
    <<"(", "|", ">", " ", "5", " ", "(", "+", " ", "1", ")", " ", "(", "*", " ", "2", ")", ")">>
NestedText == <<"(", "*", " ", "(", "+", " ", "5", " ", "1", ")", " ", "2", ")">>

\* the texts of up to n pieces
Pieces ==
    {<<"#", "a", " ">>, <<"#", "b", " ">>, <<"x", " ">>, <<"(">>, <<")">>, <<"{">>, <<"}">>}

RECURSIVE TextsOf(_)
TextsOf(n) ==
    IF n = 0 THEN {<<>>}
    ELSE TextsOf(n - 1) \cup {t \o p : t \in TextsOf(n - 1), p \in Pieces}

\* calls of the integer built-ins at and around the ends of the range
Edge == {I64_MIN, -1, 0, 1, 2, 7, I64_MAX}
ArithForms ==
    {L(<<S(op), IntV(a), IntV(b)>>) : op \in {"+", "-", "*", "//", "mod"}, a, b \in Edge}
        \cup {L(<<S("^"), IntV(a), IntV(b)>>) : a \in Edge, b \in {0, 1, 2, 7}}
        \cup {L(<<S("-"), IntV(a)>>) : a \in Edge}
ArithSession == <<ArithForms>>

\* pairs of values to compare and to hash, given as a vector literal
HashValues ==
    {Nil, IntV(0), IntV(1), Float("0.0"), Float("-0.0"), Float("1.0"), Float("NaN"),
     Float("-NaN"), Float("pi"), Str("a"), Symbol("pi"),
     Vector(<<IntV(1)>>), Vector(<<Float("1.0")>>), L(<<>>),
     SetLiteral(<<IntV(1), IntV(2)>>), SetLiteral(<<IntV(2), IntV(1)>>),
     SetLiteral(<<Float("NaN")>>), SetLiteral(<<Float("-NaN")>>),
     MapLiteral(<<<<IntV(1), Float("0.0")>>, <<IntV(2), Nil>>>>),
     MapLiteral(<<<<IntV(2), Nil>>, <<IntV(1), Float("-0.0")>>>>)}
HashForms == {L(<<S("quote"), Vector(<<a, b>>)>>) : a, b \in HashValues}
HashSession == <<HashForms>>

\* calls of map, reduce and scan
Inc == Fn(<<S("x")>>, <<L(<<S("+"), S("x"), IntV(1)>>)>>)
HigherForms ==
    {L(<<S("map"), Inc, Vector(<<IntV(1), IntV(2)>>)>>),
     L(<<S("reduce"), S("+"), IntV(0), Vector(<<IntV(1), IntV(2), IntV(3)>>)>>),
     L(<<S("scan"), S("+"), IntV(0), Vector(<<IntV(1), IntV(2)>>)>>),
     L(<<S("map"), Inc, Vector(<<>>)>>),
     L(<<S("reduce"), S("+"), IntV(0), Vector(<<>>)>>),
     L(<<S("scan"), S("+"), IntV(0), Vector(<<>>)>>),
     L(<<S("map"), Inc, IntV(1)>>),
     L(<<S("reduce"), S("+"), IntV(0), IntV(1)>>),
     L(<<S("scan"), S("+"), Vector(<<>>)>>),
     L(<<S("map"), IntV(1), Vector(<<IntV(1)>>)>>)}

\* a lambda that calls itself through map, reduce or scan, without recur
DefnThrough(name) ==
    IF name = "map" THEN
        L(<<S("defn"), S("through"), Vector(<<S("x")>>),
            L(<<S("map"), S("through"), Vector(<<S("x")>>)>>)>>)
    ELSE L(<<S("defn"), S("through"), Vector(<<S("a"), S("x")>>),
             L(<<S(name), S("through"), S("a"), Vector(<<S("x")>>)>>)>>)
CallThrough(name) ==
    IF name = "map" THEN L(<<S("through"), IntV(1)>>)
    ELSE L(<<S("through"), IntV(0), IntV(1)>>)

\* calls of the built-ins that call back, or a lambda that recurs through one
HigherSession ==
    <<HigherForms \cup {DefnThrough(name) : name \in HigherOrder},
      {CallThrough(name) : name \in HigherOrder}>>

\* the special-form heads and the names of the built-ins, as program texts
NameTexts == {Spelling[name] : name \in SPECIAL_FORM_HEADS \cup BuiltinNames}

\* integer literals: with and without a sign, with a suffix, with two signs,
\* and one that is beyond the range of an Int
NumberTexts ==
    {<<"0">>, <<"7">>, <<"-", "7">>, <<"+", "7">>, <<"-", "0">>, <<"1", "2">>,
     <<"7", "N">>, <<"-", "7", "N">>, <<"0", "N">>, <<"7", "M">>, <<"+", "-", "7">>,
     <<"9", "9", "9", "9", "9", "9">>}

Texts == TextsOf(MaxPieces) \cup {PipeText, NestedText} \cup NameTexts \cup NumberTexts
ReadSession == <<{Text(src) : src \in Texts}>>

\* the source directory is set by a file run (tests.rs:48) and is not set in
\* the REPL (main.rs run_repl)
Init ==
    /\ Start(Files)
    /\ sourceDir \in {NoDir, SomeDir(current_dir)}
    /\ inputs \in {ModuleSession, RecurSession, BinderSession, QuoteSession, ScopeSession,
                   OrderSession, LetSession, PipeSession, ReadSession,
                   HashSession, ArithSession, HigherSession, PassSession,
                   ClosureSession}

\* the programs of tests.rs:85-114, run in an empty directory: Iterations
\* re-entries through recur, in a lambda and in a loop
TailPrograms ==
    {<<{DefnDown}, {CallDown(Iterations)}>>,
     <<{LoopDown(Iterations)}>>}

InitTail ==
    \/ Init
    \/ /\ Start(<<>>)
       /\ sourceDir = SomeDir(current_dir)
       /\ inputs \in TailPrograms

\* nested calls without recur, run in an empty directory: the program of
\* tests.rs:116-133 cut to NestedCalls calls, and a lambda that calls itself
\* for ever
NestPrograms ==
    {<<{DefnBad}, {CallBad(NestedCalls)}>>,
     <<{DefnNest}, {CallNest}>>}

\* (nest) after (defn nest [] (nest)), seen from the call of eval_value_impl
\* that its callers make once the calls around it have nested to a depth
\* within NearLimit of the limit.  The callers' frames are left out: each of
\* them hands an Err on with `?`, as eval's frame does here.
InitNestEntered ==
    /\ envs = define((RootId :> [b |-> register_builtins, p |-> NoParent]), RootId,
                     "nest", Lambda(<<>>, <<CallNest>>, RootId))
    /\ sourceDir = SomeDir(current_dir)
    /\ moduleCache = <<>>
    /\ moduleLoading = {}
    /\ files = <<>>
    /\ \E depth \in (MAX_STACK_DEPTH - NearLimit)..(MAX_STACK_DEPTH + 2) :
          stack = <<EvalCall(CallNest), EvalValue(CallNest, RootId, depth)>>
    /\ ret = NoRet
    /\ inputs = <<>>
    /\ last = [form |-> CallNest, res |-> NoRet,
               before |-> DOMAIN register_builtins \cup {"nest"},
               read |-> NoRead, todo |-> <<>>]
    /\ done = 1
    /\ peak = 0
    /\ loads = <<>>
    /\ edits = 0

InitNest ==
    \/ Init
    \/ /\ Start(<<>>)
       /\ sourceDir = SomeDir(current_dir)
       /\ inputs \in NestPrograms
    \/ InitNestEntered

Next ==
    \/ Eval
    \/ EvalValueImpl
    \/ EvalListImpl
    \/ ApplyImpl
    \/ BuiltinMap
    \/ BuiltinReduce
    \/ BuiltinScan
    \/ ApplyMacro
    \/ EvalDoFormsImpl
    \/ SpecialDef
    \/ SpecialDefn
    \/ SpecialFn
    \/ SpecialDefmacro
    \/ SpecialIf
    \/ SpecialDo
    \/ SpecialLet
    \/ SpecialQuote
    \/ SpecialPipe
    \/ SpecialRecur
    \/ SpecialLoop
    \/ SpecialUse
    \/ EnsureModuleLoaded
    \/ EditFile

Spec == Init /\ [][Next]_vars

SpecTail == InitTail /\ [][Next]_vars

SpecNest == InitNest /\ [][Next]_vars

----------------------------------------------------------------------------
(* The properties *)

\* an eval call has returned and no other has started
Finished == stack = <<>> /\ last.res # NoRet

Root == envs[RootId].b

\* C1: a Recur value is never observable outside a function or loop: what
\* eval returns is an error or a value that is not a Recur (a recur that
\* reaches the top level is an error), and no binding of any Env (def,
\* let/loop binding, lambda parameter) holds a Recur.
RecurNeverObservable ==
    /\ last.res.st = "ok" => ~IsRecur(last.res.v)
    /\ \A e \in DOMAIN envs : \A name \in DOMAIN envs[e].b : ~IsRecur(envs[e].b[name])
    /\ (Finished /\ last.form \in {L(<<S("recur"), IntV(1)>>), L(<<S("do"), L(<<S("recur"), IntV(1)>>)>>)})
           => last.res.st = "err"

\* (recur 1) at the top level has ended with the error of core.rs:31-33
RecurAtTopLevelRefused ==
    /\ Finished
    /\ last.form = L(<<S("recur"), IntV(1)>>)
    /\ last.res = Err(Custom("recur must be inside a function body or loop"))

\* a lambda or a loop re-enters its body: the step of apply_impl or
\* special_loop that has got a Recur of the right arity back from its body
Reenters ==
    /\ stack # <<>>
    /\ Top.fn \in {"apply_impl", "special_loop"}
    /\ Top.pc = "body"
    /\ ret.st = "ok"
    /\ IsRecur(ret.v)
    /\ Len(stack') = Len(stack) + 1

TailCalls == {CallDown(Iterations), LoopDown(Iterations)}

\* C2: re-entry through recur does not grow the depth: the lambda or loop
\* keeps its depth and the body runs again one level below it, as in the first
\* iteration; so the programs of Iterations (more than MAX_STACK_DEPTH)
\* iterations end with their value, 0, and not with StackOverflow.
RecurDoesNotGrowDepth ==
    /\ [][Reenters => /\ stack'[Len(stack)].d = Top.d
                      /\ stack'[Len(stack')].fn = "eval_do_forms_impl"
                      /\ stack'[Len(stack')].d = Top.d + 1]_vars
    /\ [](Finished /\ last.form \in TailCalls => last.res = Ok(IntV(0)))
    /\ [](last.form \in TailCalls => peak < MAX_STACK_DEPTH)

\* (down Iterations), with more iterations than the limit, has re-entered the
\* body of down three times and runs it at the depth of the first iteration
ReenteredAtSameDepth ==
    /\ Iterations > MAX_STACK_DEPTH
    /\ last.form = CallDown(Iterations)
    /\ Len(stack) >= 3
    /\ stack[2].fn = "apply_impl"
    /\ stack[2].d = 2
    /\ stack[3].fn = "eval_do_forms_impl"
    /\ stack[3].d = 3
    /\ envs[stack[3].e].b["n"] = IntV(Iterations - 3)

NonTailRecurFails ==
    (Finished /\ last.form \in NonTailForms) => last.res = Err(recur_tail_position_error)

\* ((fn [] (do (recur) 1))) has ended with the error
NonTailRecurRefused ==
    /\ Finished
    /\ last.form = Call0(<<L(<<S("do"), RecurForm, IntV(1)>>)>>)
    /\ last.res = Err(recur_tail_position_error)

ModPath == <<"proj", "mod.vaca">>
BadPath == <<"proj", "bad.vaca">>

\* C5 (as it holds): once a path has a cache entry, no later use reads,
\* parses or evaluates the file again: the entry stays as it is, the file's
\* read and evaluation counts stay as they are, and so do the values bound to
\* the module's mangled names, whatever is written to the file meanwhile.  A
\* module whose load failed has no cache entry and is evaluated again by the
\* next use.
CachedModuleNeverReloaded ==
    [][\A path \in DOMAIN moduleCache :
          /\ path \in DOMAIN moduleCache'
          /\ moduleCache'[path] = moduleCache[path]
          /\ loads'[path] = loads[path]
          /\ loads[path].eval >= 1
          /\ \A orig \in moduleCache[path].exports :
                LET mangled == moduleCache[path].mangle_map[orig]
                IN  /\ mangled \in DOMAIN envs'[RootId].b
                    /\ envs'[RootId].b[mangled] = envs[RootId].b[mangled]]_vars

\* C5 (as stated): the forms of a module are evaluated at most once over any
\* sequence of use calls.
ModuleEvaluatedAtMostOnce ==
    \A path \in DOMAIN loads : loads[path].eval <= 1

\* mod.vaca was loaded, then rewritten to (def x 2), then imported again: it
\* has been read and evaluated once and x is 1
CachedAfterEdit ==
    /\ Finished
    /\ done = 2
    /\ last.form = UseForm("mod")
    /\ last.res = Ok(Nil)
    /\ files[ModPath] = File(<<L(<<S("def"), S("x"), IntV(2)>>)>>)
    /\ loads[ModPath] = [read |-> 1, eval |-> 1]
    /\ {"x", "x2"} \subseteq DOMAIN Root
    /\ Root["x"] = IntV(1)
    /\ Root["x2"] = IntV(1)

\* the loads in progress: the paths of the ensure_module_loaded calls that
\* are evaluating their module's forms
LoadsInProgress ==
    {i \in DOMAIN stack : stack[i].fn = "ensure_module_loaded" /\ stack[i].pc = "forms"}

CyclicUse(path) == Err(Use("CyclicUse", display(path)))

\* the use that has returned named a module file that exists: after a load
\* that failed in another directory, a name is resolved in that directory
Resolved == last.res.st = "err" => last.res.err.sub # "ResolveFailed"

\* C6: a use of a path that is being loaded fails with CyclicUse{path}: no
\* path is ever loaded inside its own load, the use of a (a uses b, b uses a)
\* ends with CyclicUse of a, passed on through the load of b and the load of
\* a, and the use of self (self uses self) ends with CyclicUse of self.
CircularUseFails ==
    /\ \A i, j \in LoadsInProgress : stack[i].path = stack[j].path => i = j
    /\ (stack # <<>> /\ ret.st = "err" /\ ret.err.sub = "CyclicUse")
           => \E path \in {<<"proj", "a.vaca">>, <<"proj", "self.vaca">>} :
                 /\ ret = CyclicUse(path)
                 /\ stack[Len(stack)].fn \in Handlers
    /\ (Finished /\ last.form = UseForm("a") /\ Resolved)
           => last.res = CyclicUse(<<"proj", "a.vaca">>)
    /\ (Finished /\ last.form = UseForm("self") /\ Resolved)
           => last.res = CyclicUse(<<"proj", "self.vaca">>)

\* (use a) has ended with CyclicUse of a.vaca after b.vaca was evaluated
CycleThroughBDetected ==
    /\ Finished
    /\ last.form = UseForm("a")
    /\ last.res = CyclicUse(<<"proj", "a.vaca">>)
    /\ loads[<<"proj", "b.vaca">>].eval = 1
    /\ <<"proj", "a.vaca">> \notin DOMAIN moduleCache

\* C7: the loading set holds exactly the paths whose load is in progress, so
\* a path leaves it when its load returns, with success or with any failure;
\* it is empty when no eval is running; and a use that ends with CyclicUse is
\* a use of a module that is circular, never of one whose load failed before.
LoadingMarkCleared ==
    /\ moduleLoading = {stack[i].path : i \in LoadsInProgress}
    /\ stack = <<>> => moduleLoading = {}
    /\ (Finished /\ last.res.st = "err" /\ last.res.err.sub = "CyclicUse")
           => last.form \in {UseForm("a"), UseForm("self")}
    /\ (Finished /\ last.form = UseForm("bad") /\ files[BadPath] = Files[BadPath] /\ Resolved)
           => last.res = Err(UndefinedSymbol("nosuch"))

\* (use bad) has failed twice with the error of its second form
FailedLoadRetried ==
    /\ Finished
    /\ done = 2
    /\ last.form = UseForm("bad")
    /\ last.res = Err(UndefinedSymbol("nosuch"))
    /\ loads[BadPath] = [read |-> 2, eval |-> 2]
    /\ moduleLoading = {}

\* a use form, the canonical path it names and, once that is cached, the
\* exports and the mangle map of the module
IsUse(form) == form.k = "list" /\ Len(form.xs) \in {2, 3} /\ form.xs[1] = S("use")
UsedPath(form) == canonicalize(files, resolve_module_path(form.xs[2].s, sourceDir).path)
UsedModule(form) == moduleCache[UsedPath(form).path]

\* a use has returned whose module is loaded
UseReturned ==
    /\ Finished
    /\ IsUse(last.form)
    /\ UsedPath(last.form).some
    /\ UsedPath(last.form).path \in DOMAIN moduleCache

\* the entries of an import vector: the symbols that are no alias, each with
\* its place in the vector and the name it is to be visible under
ImportEntries(items) ==
    LET as(i) == i \in DOMAIN items /\ items[i] = Keyword("as")
        aliased(i) == as(i + 1) /\ i + 2 \in DOMAIN items
        origs == {i \in DOMAIN items : items[i].k = "symbol" /\ ~(as(i - 1) /\ i >= 3)}
    IN  {[at |-> i, orig |-> items[i].s,
          visible |-> IF aliased(i) THEN items[i + 2].s ELSE items[i].s] : i \in origs}

\* what a use form asks for: all the exports, or the entries of its vector
Requested(form) ==
    IF Len(form.xs) = 2
    THEN {[at |-> 0, orig |-> name, visible |-> name] : name \in UsedModule(form).exports}
    ELSE ImportEntries(form.xs[3].xs)

\* the names that the top-level def, defn and defmacro forms of a file define
DefinedNames(forms) ==
    {forms[i].xs[2].s :
        i \in {j \in DOMAIN forms : /\ forms[j].k = "list"
                                    /\ Len(forms[j].xs) >= 2
                                    /\ forms[j].xs[1] \in {S("def"), S("defn"), S("defmacro")}}}

\* C8: a successful use installs exactly the requested visible names of the
\* module's exports: each requested visible name is bound in the root to the
\* module's value of its export, and an export that was not requested under
\* its own name (one not listed, or the original of an aliased one) stays
\* unbound under that name unless it was bound before; looking up a name that
\* is unbound gives UndefinedSymbol.  The exports of a module are the names
\* its top-level def, defn and defmacro forms define.
UseInstallsRequestedNames ==
    /\ \A path \in DOMAIN moduleCache :
          path \notin {ed.path : ed \in Edits}
              => moduleCache[path].exports = DefinedNames(Files[path].forms)
    /\ (UseReturned /\ last.res.st = "ok") =>
          LET module == UsedModule(last.form)
              requested == Requested(last.form)
          IN  /\ \A r \in requested :
                    /\ r.orig \in module.exports
                    /\ r.visible \in DOMAIN Root
                    /\ Root[r.visible] = Root[module.mangle_map[r.orig]]
              /\ \A name \in module.exports :
                    (name \notin {r.visible : r \in requested} /\ name \notin last.before)
                        => name \notin DOMAIN Root
    /\ (Finished /\ last.form.k = "symbol") =>
          last.res = IF last.form.s \in DOMAIN Root THEN Ok(Root[last.form.s])
                     ELSE Err(UndefinedSymbol(last.form.s))

\* (use mod [x :as x2]) has bound x2 to the module's x, and neither x nor y
AliasInstalled ==
    /\ Finished
    /\ last.form = UseList("mod", <<S("x"), Keyword("as"), S("x2")>>)
    /\ last.res = Ok(Nil)
    /\ "x2" \in DOMAIN Root
    /\ Root["x2"] = Root[mangled_name(module_key_hash(ModPath), "x")]
    /\ Root["x2"] \in {IntV(1), IntV(2)}
    /\ "x" \notin DOMAIN Root
    /\ "y" \notin DOMAIN Root

\* the first requested entry that cannot be installed: its original is no
\* export, or its visible name is bound in the root (it was before the use,
\* or an earlier entry has just installed it)
Refused(form, before) ==
    LET requested == Requested(form)
        bad(r) == \/ r.orig \notin UsedModule(form).exports
                  \/ r.visible \in before
                  \/ \E q \in requested : q.at < r.at /\ q.visible = r.visible
    IN  {r \in requested : bad(r) /\ \A q \in requested : bad(q) => r.at <= q.at}

\* C9: once the module is loaded each requested (original, visible) is
\* decided in turn: an original that is no export ends the use with
\* MissingExport; otherwise a visible name that is bound locally in the root
\* (a built-in, a def, an earlier use) ends it with NameCollision; otherwise
\* the value of the mangled name is installed under the visible name.
VisibilityDecided ==
    UseReturned =>
        LET module == UsedModule(last.form)
            refused == Refused(last.form, last.before)
        IN  /\ refused = {} => last.res = Ok(Nil)
            /\ refused # {} =>
                  \E r \in refused :
                     last.res = IF r.orig \notin module.exports
                                THEN Err(Use("MissingExport", r.orig))
                                ELSE Err(Use("NameCollision", r.visible))
            /\ last.res.st = "ok" =>
                  \A r \in Requested(last.form) :
                     /\ r.visible \in DOMAIN Root
                     /\ get(envs, RootId, r.visible)
                            = get(envs, RootId, module.mangle_map[r.orig])

\* (use mod) after (def x 5) has ended with NameCollision of x, and x is 5
CollisionWithDef ==
    /\ Finished
    /\ done = 2
    /\ last.form = UseForm("mod")
    /\ last.res = Err(Use("NameCollision", "x"))
    /\ "x" \in last.before
    /\ Root["x"] = IntV(5)

MacroCall0 == L(<<S("m")>>)

\* C10: a macro imported from a module reaches the module's definitions that
\* were not imported: after (use m [m]) alone, (m), whose expansion calls the
\* module's helper, is evaluated with the module's helper (through its
\* mangled name) and gives 11; helper itself is unbound in the root.
ImportedMacroFindsHelper ==
    (Finished /\ last.form = MacroCall0 /\ "m" \in DOMAIN Root) =>
        /\ Root["m"].k = "macro"
        /\ "helper" \notin DOMAIN Root
        /\ last.res = Ok(IntV(11))

\* (m) has given 11 after (use m [m])
MacroExpandedWithHelper ==
    /\ Finished
    /\ done = 2
    /\ last.form = MacroCall0
    /\ last.res = Ok(IntV(11))
    /\ "helper" \notin DOMAIN Root
    /\ mangled_name(module_key_hash(<<"proj", "m.vaca">>), "helper") \in DOMAIN Root

MacroCallB == L(<<S("mb")>>)

\* C11: the module rewrite is binder-aware: for the module b that defines
\* x = 100, id and (defmacro mb [] (quote (let {x 1} (id x)))), the call (mb)
\* after (use bind [mb]) gives 1: the x bound by the let is left as written
\* and the unshadowed id is the module's.
BinderAwareMacroGivesOne ==
    (Finished /\ last.form = MacroCallB /\ "mb" \in DOMAIN Root) => last.res = Ok(IntV(1))

QPath == <<"proj", "q.vaca">>

\* C12: outside defmacro bodies the rewrite leaves (quote form) as written: the
\* forms of q.vaca, (def x 1) (def sym (quote x)) (defn getq [] (quote x)), are
\* rewritten with their quoted x untouched, so the imported sym is the symbol
\* x and (getq) gives the symbol x, never the mangled name.
QuoteLeftAsWritten ==
    /\ \A i \in DOMAIN Files[QPath].forms :
          LET form == Files[QPath].forms[i]
              out == rewrite_module_form(form, [n \in {"x", "sym", "getq", "top"} |->
                                                 mangled_name(module_key_hash(QPath), n)], FALSE)
          IN  /\ out.xs[Len(out.xs)] = form.xs[Len(form.xs)]
              /\ form.xs[1] = S("quote") => out = form
    /\ QPath \in DOMAIN moduleCache
          => Root[moduleCache[QPath].mangle_map["sym"]] = Symbol("x")
    /\ (Finished /\ last.form = S("sym") /\ "sym" \in DOMAIN Root) => last.res = Ok(Symbol("x"))
    /\ (Finished /\ last.form = L(<<S("getq")>>) /\ "getq" \in DOMAIN Root)
          => last.res = Ok(Symbol("x"))

\* sym, imported from q, has been evaluated to the symbol x
QuotedSymbolImported ==
    /\ Finished
    /\ done = 2
    /\ last.form = S("sym")
    /\ last.res = Ok(Symbol("x"))
    /\ "x" \notin DOMAIN Root

\* a def, defn or defmacro returns with success: the step that defines
Defines ==
    /\ stack # <<>>
    /\ Top.fn \in {"special_def", "special_defn", "special_defmacro"}
    /\ Len(stack') < Len(stack)
    /\ ret'.st = "ok"

\* name is bound in e or in an Env between e and the root
RECURSIVE LocallyShadowed(_, _, _)
LocallyShadowed(store, e, name) ==
    /\ store[e].p # NoParent
    /\ \/ name \in DOMAIN store[e].b
       \/ LocallyShadowed(store, store[e].p, name)

\* C13: def, defn and defmacro define in the root whatever scope they are
\* evaluated in: the step adds or overwrites the binding of the name in the
\* root and nothing else, every other Env keeps its bindings, and afterwards
\* the name has the new value in every scope that does not shadow it.
DefinesInRootOnly ==
    /\ [][Defines =>
            LET name == Top.xs[1].s
                value == ret'.v
            IN  /\ envs'[RootId].b = (name :> value) @@ envs[RootId].b
                /\ DOMAIN envs' = DOMAIN envs
                /\ \A e \in DOMAIN envs \ {RootId} : envs'[e] = envs[e]
                /\ \A e \in DOMAIN envs' :
                      ~LocallyShadowed(envs', e, name)
                          => get(envs', e, name) = [some |-> TRUE, v |-> value]]_vars
    /\ []((Finished /\ last.form = DefInLet) => (last.res = Ok(IntV(1)) /\ Root["a"] = IntV(2)))
    /\ []((Finished /\ last.form = DefInFn) => (last.res = Ok(IntV(7)) /\ Root["g"] = IntV(7)))
    /\ []((Finished /\ last.form = DefnInLoop) => (last.res = Ok(IntV(0)) /\ Root["h"].k = "lambda"))
    /\ []((Finished /\ last.form = DefmacroInLet)
              => (last.res = Ok(IntV(1)) /\ Root["pi"].k = "macro"))

\* (let [a 1] (def a 2) a) gave 1, and a evaluated after it gives 2
DefinedUnderLocalBinding ==
    /\ Finished
    /\ done = 2
    /\ last.form = S("a")
    /\ last.res = Ok(IntV(2))
    /\ DOMAIN envs = {RootId}

\* the forms of OrderSession whose sub-forms define o, and those whose
\* sub-forms are unbound
DefinesO(form) ==
    \/ form.k \in {"vector", "list"} /\ DefO(2) \in {form.xs[i] : i \in DOMAIN form.xs}
    \/ form.k = "set" /\ DefO(2) \in form.ms
    \/ form.k = "map" /\ \E en \in form.ms : DefO(2) \in {en.xs[1], en.xs[2]}

\* C14: sub-forms are evaluated in source order: of two sub-forms that
\* define o the later in the source is evaluated last, so o is 2 afterwards,
\* and of two sub-forms that fail the earlier in the source gives the error,
\* UndefinedSymbol(u1); in a vector, a call, a set and a map.
SubFormsInSourceOrder ==
    (Finished /\ last.form \in OrderedForms \cup UnorderedForms) =>
        IF DefinesO(last.form) THEN Root["o"] = IntV(2)
        ELSE last.res = Err(UndefinedSymbol("u1"))

\* C15: let accepts its bindings written as a map literal:
\* (let {x 10 y 32} (+ x y)) evaluates to 42.
LetAcceptsMapBindings ==
    (Finished /\ last.form = LetMap) => last.res = Ok(IntV(42))

\* C16: a pipeline threads its value through the steps from left to right,
\* and the program text (|> 5 (+ 1) (* 2)), read and evaluated, gives 12
PipeTextGivesTwelve ==
    (last.read.st # "none" /\ last.read.src = PipeText /\ stack = <<>>)
        => last.res = Ok(IntV(12))

\* the texts `#a #b x` and `#a x`
StackedText == <<"#", "a", " ", "#", "b", " ", "x", " ">>
SingleText == <<"#", "a", " ", "x", " ">>

Raws(nodes) == [i \in DOMAIN nodes |-> nodes[i].raw]

\* C17: the node read from `#a #b x` carries one annotation, the list of a
\* and b in that order, and the node read from `#a x` carries a itself
AnnotationsInSourceOrder ==
    last.read.st = "ok" =>
        /\ last.read.src = StackedText =>
              /\ last.read.nodes[1].annotation.kind = "List"
              /\ Raws(last.read.nodes[1].annotation.items) = <<<<"a">>, <<"b">>>>
        /\ last.read.src = SingleText =>
              /\ last.read.nodes[1].annotation.kind = "Symbol"
              /\ last.read.nodes[1].annotation.raw = <<"a">>

Within(inner, outer) == outer.start <= inner.start /\ inner.end <= outer.end

\* the child nodes of a node: its items and its annotation
Children(node) ==
    {node.items[i] : i \in DOMAIN node.items}
        \cup (IF node.annotation = NoNode THEN {} ELSE {node.annotation})

RECURSIVE SpansContained(_, _)
SpansContained(node, len) ==
    /\ node.span.start <= node.span.end
    /\ node.span.end <= len
    /\ \A child \in Children(node) :
          Within(child.span, node.span) /\ SpansContained(child, len)

\* C18: the span of every node that parse gives is well formed and within
\* the input, and it holds the spans of the node's children
SpanContainment ==
    last.read.st = "ok" =>
        \A i \in DOMAIN last.read.nodes :
            SpansContained(last.read.nodes[i], Len(last.read.src))

\* C19: values that are equal have equal hashes
HashAgreesWithEquality ==
    (last.form \in HashForms /\ last.res.st = "ok"
        /\ eq(last.res.v.xs[1], last.res.v.xs[2]))
            => hash(last.res.v.xs[1]) = hash(last.res.v.xs[2])

\* C20: no evaluation panics: every call of a built-in on integers returns
\* a value or an EvalError
ErrorsAreValuesNotPanics == ret.st # "panic" /\ last.res.st # "panic"

\* a step of the loader's own: special_use, or ensure_module_loaded before it
\* evaluates the module's forms
LoaderStep ==
    /\ stack # <<>>
    /\ \/ Top.fn = "special_use"
       \/ Top.fn = "ensure_module_loaded" /\ Top.pc = "entry"

\* C21: every failure raised by a step of the module loader's own reaches
\* the caller as EvalError::Use
LoaderErrorsAreUse ==
    [][(LoaderStep /\ ret'.st = "err") => ret'.err.kind = "Use"]_vars

\* C21, but for the module source that does not parse
LoaderErrorsAreUseOrParse ==
    [][(LoaderStep /\ ret'.st = "err") => ret'.err.kind \in {"Use", "ParseError"}]_vars

\* the depth of the call that invoked the built-in whose frame is stack[i]
InvokingDepth(i) == stack[i - 1].d

\* the frames of map, reduce and scan that wait for a call of their f
Waiting ==
    {i \in DOMAIN stack :
        stack[i].fn \in {"builtin_" \o name : name \in HigherOrder} /\ i < Len(stack)}

\* C22: a callable invoked by map, reduce or scan runs at a depth greater
\* than that of the call that invoked the built-in, so that the depth grows
\* with every call a lambda makes of itself through such a built-in
DepthCoversHigherOrder == \A i \in Waiting : stack[i + 1].d > InvokingDepth(i)

\* the calls through map, reduce and scan nest and the depth does not grow
NestsThroughBuiltin ==
    /\ Passes > MaxPasses
    /\ \E i, j \in Waiting : i < j /\ InvokingDepth(i) = InvokingDepth(j)

\* a call of ensure_module_loaded returns
LoadReturns == Running("ensure_module_loaded") /\ Len(stack') < Len(stack)

\* the source dir of the root when the load that returns was entered
DirBeforeLoad == IF Top.pc = "entry" THEN sourceDir ELSE Top.prev

\* C23: when a load returns, with the module's forms evaluated or with one of
\* them failed, the source dir of the root is what it was before the load
SourceDirRestored == [][LoadReturns => sourceDir' = DirBeforeLoad]_vars

\* C23, for the loads that return a ModuleInfo
SourceDirRestoredOnSuccess ==
    [][(LoadReturns /\ ret'.st = "ok") => sourceDir' = DirBeforeLoad]_vars

\* the mangled names of the exports of the module files
MangledNames ==
    UNION {{mangled_name(module_key_hash(path), orig) :
               orig \in collect_module_exports(files[path].forms).names} :
           path \in {q \in DOMAIN files : files[q].st = "file"}}

\* the frames of special_use on the stack, and the one of the use that eval
\* was given
Uses == {i \in DOMAIN stack : stack[i].fn = "special_use"}
OutermostUse == CHOOSE i \in Uses : \A j \in Uses : i <= j

\* the visible names the use asks for, when its frame has the ModuleInfo
RequestedVisible ==
    IF Len(Top.xs) = 1 THEN ret.info.exports
    ELSE {en.visible : en \in ImportEntries(Top.xs[2].xs)}

\* the names the step binds in the root, or binds to another value
Rebound ==
    {name \in DOMAIN envs'[RootId].b :
        name \in DOMAIN Root => envs'[RootId].b[name] # Root[name]}

\* C24: while a use is evaluated, the root gets bindings for mangled export
\* names and, when the use installs them, for the visible names it asks for;
\* no other name is bound or rebound
LoadBindsOnlyExports ==
    [][Uses # {} =>
          Rebound \subseteq
              MangledNames \cup (IF Len(stack) = OutermostUse /\ Top.pc = "loaded"
                                 THEN RequestedVisible ELSE {})]_vars

\* C24, for the modules that use no module and define names at their top
\* level only
LoadOfPlainModuleBindsOnlyExports ==
    [][(Uses # {} /\ last.form \notin {UseForm("lib.outer"), UseForm("tuck")}) =>
          Rebound \subseteq
              MangledNames \cup (IF Len(stack) = OutermostUse /\ Top.pc = "loaded"
                                 THEN RequestedVisible ELSE {})]_vars

\* the value of the first form of a pipeline of PassForms
PassedValue(form) == form.xs[2].xs[2]

\* evaluating the value gives the value
RECURSIVE SelfEvaluating(_)
SelfEvaluating(v) ==
    CASE v.k \in {"symbol", "set", "map"} -> FALSE
      [] v.k = "list" -> v.xs = <<>>
      [] v.k = "vector" -> \A i \in DOMAIN v.xs : SelfEvaluating(v.xs[i])
      [] OTHER -> TRUE

\* C25: the step of a pipeline receives the accumulated value as it is: id
\* returns the value that the first form of (|> (quote q) id) gave
PipePassesValue ==
    (Finished /\ last.form \in PassForms /\ done = 2)
        => last.res = Ok(PassedValue(last.form))

\* C25, for the values that evaluate to themselves
PipePassesSelfEvaluating ==
    (Finished /\ last.form \in PassForms /\ done = 2 /\ SelfEvaluating(PassedValue(last.form)))
        => last.res = Ok(PassedValue(last.form))

\* a use has failed on an entry of what it asks for
UseFailedOnEntry ==
    /\ Finished
    /\ IsUse(last.form)
    /\ last.res.st = "err"
    /\ last.res.err.kind = "Use"
    /\ last.res.err.sub \in {"MissingExport", "NameCollision"}

\* the names bound in the root that are no mangled names
PlainNames(names) ==
    names \ (MangledNames
                \cup UNION {{moduleCache[path].mangle_map[orig] :
                                orig \in DOMAIN moduleCache[path].mangle_map} :
                            path \in DOMAIN moduleCache})

\* C26: a use that fails with MissingExport or NameCollision has installed
\* none of its visible names: the plain names bound in the root are those
\* bound before the use
FailingUseInstallsNothing ==
    UseFailedOnEntry => PlainNames(DOMAIN Root) = PlainNames(last.before)

\* C26, for the uses that ask for one name
FailingUseOfOneNameInstallsNothing ==
    (UseFailedOnEntry /\ Len(last.form.xs) = 3
        /\ Cardinality(ImportEntries(last.form.xs[3].xs)) = 1)
        => PlainNames(DOMAIN Root) = PlainNames(last.before)

\* C27: a closure made in an iteration of a loop sees the loop variables of
\* that iteration after a recur, as a closure made in an iteration of a lambda
\* sees the parameters of that iteration: called in the second iteration, the
\* closure over i made in the first gives 0
ClosureKeepsIteration ==
    /\ (Finished /\ last.form = LoopClosure) => last.res = Ok(IntV(0))
    /\ (Finished /\ last.form = CallClosure /\ "lp" \in last.before)
           => last.res = Ok(IntV(0))

\* C27, for the lambda
LambdaClosureKeepsIteration ==
    (Finished /\ last.form = CallClosure /\ "lp" \in last.before) => last.res = Ok(IntV(0))

\* the closure of the lambda has been called
LambdaClosureCalled ==
    Finished /\ last.form = CallClosure /\ "lp" \in last.before /\ last.res.st = "ok"

\* C28: no path is both in the module cache and in the loading set, and the
\* loading set holds exactly the paths of the loads in progress on the stack
CacheAndLoadingDisjoint ==
    /\ DOMAIN moduleCache \cap moduleLoading = {}
    /\ moduleLoading = {stack[i].path : i \in LoadsInProgress}

\* a module is loaded from a module that is being loaded, with another module
\* in the cache
NestedLoadWithCache == Cardinality(moduleLoading) = 2 /\ DOMAIN moduleCache # {}

\* parse has read the text as one symbol whose raw text is the text
ReadAsSymbol(read) ==
    /\ read.st = "ok"
    /\ Len(read.nodes) = 1
    /\ read.nodes[1].kind = "Symbol"
    /\ read.nodes[1].raw = read.src

\* C29: parse reads every special-form head and every name of the built-in
\* table as a single symbol whose raw text is that name
NamesCanBeWritten ==
    (last.read # NoRead /\ last.read.src \in NameTexts) => ReadAsSymbol(last.read)

\* the names with a character that is no symbol character, or with two /
Unwritable == {"|>", "|", "^", "//"}

\* C29, for the other names
OtherNamesCanBeWritten ==
    (last.read # NoRead /\ last.read.src \in NameTexts
        /\ to_string(last.read.src) \notin Unwritable)
        => ReadAsSymbol(last.read)

\* the number that an integer lexeme stands for: its digits, negated when a
\* sign of the lexeme is -, whatever its suffix
LiteralValue(lexeme) ==
    LET digits == SelectSeq(lexeme, LAMBDA ch : ch \in Digits)
    IN  IF \E i \in DOMAIN lexeme : lexeme[i] = "-" THEN -Decimal(0, digits)
        ELSE Decimal(0, digits)

\* the text read is one integer literal whose value is in the range of an Int
IntegerRead ==
    /\ last.read # NoRead
    /\ last.read.st = "ok"
    /\ Len(last.read.nodes) = 1
    /\ last.read.nodes[1].kind = "Int"
    /\ InRange(LiteralValue(last.read.src))

\* C30: node_to_form makes of an integer literal that the reader accepts, and
\* whose value is in the range of an Int, the Int of that value
LoweringKeepsValue == IntegerRead => last.form = IntV(LiteralValue(last.read.src))

\* C30, for the literals with at most one sign and no suffix
PlainLexeme(lexeme) ==
    AllDigits(IF lexeme[1] \in {"+", "-"} THEN Tail(lexeme) ELSE lexeme)

LoweringKeepsPlainValue ==
    (IntegerRead /\ PlainLexeme(last.read.src))
        => last.form = IntV(LiteralValue(last.read.src))

====
